---- MODULE Spec2Model ----
(***************************************************************************)
(* Model of the Markdown link tooling of wallstop/unity-tips:              *)
(*   scripts/link_utils.py       the link scanner and its range helpers    *)
(*   scripts/sync-wiki.py        the wiki link rewriter (convert_links)    *)
(*   scripts/check_wiki_links.py the reverse parser of [[...]] links       *)
(*                                                                         *)
(* Documents are strings; offsets are 0-based and spans half-open, as in   *)
(* the Python source.  Every function of the source is an operator that    *)
(* follows the control flow of the code, loop by loop.                     *)
(***************************************************************************)
EXTENDS Integers, Sequences, FiniteSets, TLC

VARIABLES
    pc,              \* position of the driver: which call has been made
    content,         \* the document handed to extract_links / convert_links
    source_file,     \* the source-relative path handed to convert_links
    links,           \* the list returned by extract_links(content)
    result,          \* the string returned by convert_links
    unmapped_links,  \* the module-level accumulator _unmapped_links
    call,            \* the arguments of a call of one of the pure helpers
    ret,             \* what that call returned
    errors,          \* the error counter of main
    wiki_dir,        \* the files under WIKI_DIR: pairs (page name, text)
    files,           \* the source tree: what a read of each path meets
    unwritable,      \* the pages of WIKI_DIR whose write_text raises OSError
    remaining,       \* what the loop of main under way has yet to go over
    cursor,          \* idx of find_inline_links: where its scan stands
    remote_cache,    \* LinkChecker.remote_cache: url -> (ok, message)
    requests         \* the HTTP requests issued so far, with their outcomes

vars ==
    <<pc, content, source_file, links, result, unmapped_links, call, ret,
      errors, wiki_dir, files, unwritable, remaining, cursor,
      remote_cache, requests>>

\* the state of a LinkChecker, and its value where none is at work
remote_vars == <<remote_cache, requests>>

NoRemote ==
    /\ remote_cache = <<>>
    /\ requests = <<>>

\* the state of a run of main, and its value where main is not run
sync_vars == <<errors, wiki_dir, files, unwritable, remaining>>

NoSync ==
    /\ errors = 0
    /\ wiki_dir = {}
    /\ files = <<>>
    /\ unwritable = {}
    /\ remaining = <<>>

-----------------------------------------------------------------------------
(* Python string primitives, on 0-based offsets.                           *)

\* The backtick of the source.  A TLA+ string cannot hold a backtick, so the
\* model writes the character ^ for it everywhere; ^ has no meaning of its
\* own to any function of the source.
Backtick == "^"

\* text[i]
CharAt(text, i) == SubSeq(text, i + 1, i + 1)

\* text[a:b] for 0 <= a, b <= len(text)
Slice(text, a, b) == SubSeq(text, a + 1, b)

\* str.isspace() of one character (the whitespace ASCII characters)
IsSpace(c) == c \in {" ", "\n", "\t", "\r"}

\* the class [a-zA-Z] of the regular expressions
IsAlpha(c) ==
    c \in {"a", "b", "c", "d", "e", "f", "g", "h", "i", "j", "k", "l", "m",
           "n", "o", "p", "q", "r", "s", "t", "u", "v", "w", "x", "y", "z",
           "A", "B", "C", "D", "E", "F", "G", "H", "I", "J", "K", "L", "M",
           "N", "O", "P", "Q", "R", "S", "T", "U", "V", "W", "X", "Y", "Z"}

\* text.startswith(prefix, i): prefix occurs in text at offset i
StartsWithAt(text, prefix, i) ==
    /\ i + Len(prefix) <= Len(text)
    /\ Slice(text, i, i + Len(prefix)) = prefix

StartsWith(text, prefix) == StartsWithAt(text, prefix, 0)

EndsWith(text, suffix) ==
    /\ Len(suffix) <= Len(text)
    /\ Slice(text, Len(text) - Len(suffix), Len(text)) = suffix

\* where a scan that moves up one offset at a time stops: the least of the
\* offsets in hits, or -1 when there is none
First(hits) ==
    IF hits = {} THEN -1 ELSE CHOOSE j \in hits : \A k \in hits : j <= k

\* where a scan that moves down one offset at a time stops: the greatest of
\* the offsets in hits, or -1
Last(hits) ==
    IF hits = {} THEN -1 ELSE CHOOSE j \in hits : \A k \in hits : k <= j

\* text.find(c, i): the least offset >= i holding the character c, or -1
Find(text, c, i) == First({j \in i..(Len(text) - 1) : CharAt(text, j) = c})

\* text.rfind(c, 0, hi): the greatest offset < hi holding c, or -1
RFind(text, c, hi) == Last({j \in 0..(hi - 1) : CharAt(text, j) = c})

\* text[i:].split(c): the pieces between the occurrences of the character c,
\* empty ones included
RECURSIVE SplitOn(_, _, _)
SplitOn(text, c, i) ==
    LET at == Find(text, c, i)
    IN  IF at = -1 THEN <<Slice(text, i, Len(text))>>
        ELSE <<Slice(text, i, at)>> \o SplitOn(text, c, at + 1)

\* offset of the first character of text[i:] that is not whitespace
RECURSIVE SkipSpace(_, _)
SkipSpace(text, i) ==
    IF i < Len(text) /\ IsSpace(CharAt(text, i)) THEN SkipSpace(text, i + 1)
    ELSE i

\* end (exclusive) of text[:hi] with trailing whitespace removed
RECURSIVE SkipSpaceBack(_, _)
SkipSpaceBack(text, hi) ==
    IF hi > 0 /\ IsSpace(CharAt(text, hi - 1)) THEN SkipSpaceBack(text, hi - 1)
    ELSE hi

\* str.strip()
Strip(text) ==
    LET a == SkipSpace(text, 0)
        b == SkipSpaceBack(text, Len(text))
    IN  IF a >= b THEN "" ELSE Slice(text, a, b)

\* end (exclusive) of the line of text that starts at offset i, its "\n"
\* included: the pieces of text.splitlines(keepends=True)
LineEnd(text, i) ==
    LET n == Find(text, "\n", i)
    IN  IF n = -1 THEN Len(text) ELSE n + 1

-----------------------------------------------------------------------------
(* link_utils.py                                                           *)

\* a slip in in_ranges: no index is ever inside a range
in_ranges_never(index, ranges) == FALSE

\* in_ranges(index, ranges); ranges is a sequence of <<start, end>>
in_ranges(index, ranges) ==
    \E k \in 1..Len(ranges) : ranges[k][1] <= index /\ index < ranges[k][2]

\* a slip in overlaps_any: nothing ever overlaps
overlaps_any_never(start, end, ranges) == FALSE

\* overlaps_any(start, end, ranges)
overlaps_any(start, end, ranges) ==
    \E k \in 1..Len(ranges) : start < ranges[k][2] /\ end > ranges[k][1]

\* find_closing without the backslash rule
RECURSIVE find_closing_noescape_loop(_, _, _, _, _)
find_closing_noescape_loop(text, i, depth, opener, closer) ==
    LET at == First({j \in i..(Len(text) - 1) : CharAt(text, j) \in {opener, closer}})
        current == CharAt(text, at)
    IN  IF at = -1 THEN -1
        ELSE IF current = opener
        THEN find_closing_noescape_loop(text, at + 1, depth + 1, opener, closer)
        ELSE IF depth - 1 = 0 THEN at
        ELSE find_closing_noescape_loop(text, at + 1, depth - 1, opener, closer)

find_closing_noescape(text, start, opener, closer) ==
    find_closing_noescape_loop(text, start, 0, opener, closer)

\* the while loop of find_closing, from offset i at nesting depth depth
RECURSIVE find_closing_loop(_, _, _, _, _)
find_closing_loop(text, i, depth, opener, closer) ==
    LET at == First({j \in i..(Len(text) - 1) : CharAt(text, j) \in {"\\", opener, closer}})
        current == CharAt(text, at)
    IN  IF at = -1 THEN -1
        ELSE IF current = "\\"
        THEN find_closing_loop(text, at + 2, depth, opener, closer)
        ELSE IF current = opener
        THEN find_closing_loop(text, at + 1, depth + 1, opener, closer)
        ELSE IF depth - 1 = 0 THEN at
        ELSE find_closing_loop(text, at + 1, depth - 1, opener, closer)

\* find_closing that takes the last character of text for the closer when it
\* finds none
find_closing_forgiving(text, start, opener, closer) ==
    IF find_closing_loop(text, start, 0, opener, closer) = -1 THEN Len(text) - 1
    ELSE find_closing_loop(text, start, 0, opener, closer)

\* find_closing(text, start, opener, closer)
find_closing(text, start, opener, closer) ==
    find_closing_loop(text, start, 0, opener, closer)

\* content.split()[0]: the first whitespace-delimited token of a string that
\* starts with a character that is not whitespace
FirstToken(text) ==
    LET ends == {i \in 0..Len(text) : i = Len(text) \/ IsSpace(CharAt(text, i))}
        e == CHOOSE i \in ends : \A j \in ends : i <= j
    IN  Slice(text, 0, e)

\* extract_href(dest_content)
extract_href(dest_content) ==
    LET stripped == Strip(dest_content) IN
    IF stripped = "" THEN ""
    ELSE IF StartsWith(stripped, "<") /\ Find(stripped, ">", 0) # -1
    THEN Strip(Slice(stripped, 1, Find(stripped, ">", 0)))
    ELSE FirstToken(stripped)

\* find_inline_links(text), from offset idx; the InlineLink records in the
\* order the generator yields them
RECURSIVE find_inline_links_loop(_, _)
find_inline_links_loop(text, from) ==
    LET idx == Find(text, "[", from) IN
    IF idx = -1 THEN <<>>
    ELSE IF idx > 0 /\ CharAt(text, idx - 1) = "!"
    THEN find_inline_links_loop(text, idx + 1)
    ELSE LET close == find_closing(text, idx, "[", "]") IN
         IF close = -1 THEN find_inline_links_loop(text, idx + 1)
         ELSE LET j == SkipSpace(text, close + 1) IN
              IF j >= Len(text) \/ CharAt(text, j) # "("
              THEN find_inline_links_loop(text, close + 1)
              ELSE LET dest_end == find_closing(text, j, "(", ")") IN
                   IF dest_end = -1 THEN find_inline_links_loop(text, close + 1)
                   ELSE LET dest_content == Slice(text, j + 1, dest_end)
                            href == extract_href(dest_content)
                        IN  IF href = ""
                            THEN find_inline_links_loop(text, dest_end + 1)
                            ELSE <<[start |-> idx,
                                    end |-> dest_end + 1,
                                    text |-> Slice(text, idx + 1, close),
                                    href |-> href,
                                    separator |-> Slice(text, close + 1, j),
                                    dest_content |-> dest_content,
                                    segment |-> Slice(text, idx, dest_end + 1)]>>
                                 \o find_inline_links_loop(text, dest_end + 1)

find_inline_links(text) == find_inline_links_loop(text, 0)

\* build_line_offsets(text): 0, then the end offset of every line
RECURSIVE build_line_offsets_loop(_, _)
build_line_offsets_loop(text, total) ==
    IF total >= Len(text) THEN <<>>
    ELSE LET e == LineEnd(text, total)
         IN  <<e>> \o build_line_offsets_loop(text, e)

build_line_offsets(text) == <<0>> \o build_line_offsets_loop(text, 0)

\* bisect_right(offsets, index) for an ascending list: how many entries are <= index
bisect_right(offsets, index) ==
    Cardinality({k \in 1..Len(offsets) : offsets[k] <= index})

\* index_to_line_column with a column counted from 0
index_to_line_column_from_zero(offsets, index) ==
    <<bisect_right(offsets, index), index - offsets[bisect_right(offsets, index)]>>

\* index_to_line_column(offsets, index), as the pair <<line, column>>
index_to_line_column(offsets, index) ==
    LET line == bisect_right(offsets, index) - 1
        column == index - offsets[line + 1] + 1
    IN  <<line + 1, column>>

\* find_html_tag_ranges(text): the matches of <[a-zA-Z][^>]*> from offset i on
RECURSIVE find_html_tag_ranges_loop(_, _)
find_html_tag_ranges_loop(text, from) ==
    LET i == First({j \in from..(Len(text) - 1) :
                      /\ CharAt(text, j) = "<"
                      /\ j + 1 < Len(text)
                      /\ IsAlpha(CharAt(text, j + 1))
                      /\ Find(text, ">", j + 2) # -1})
    IN  IF i = -1 THEN <<>>
        ELSE LET e == Find(text, ">", i + 2) + 1
             IN  <<<<i, e>>>> \o find_html_tag_ranges_loop(text, e)

find_html_tag_ranges(text) == find_html_tag_ranges_loop(text, 0)

\* fence_pattern that knows the backtick fence only
FencePatternMatches_backticks(line) ==
    StartsWithAt(line, Backtick \o Backtick \o Backtick, SkipSpace(line, 0))

\* fence_pattern.match(line): optional whitespace, then three backticks or
\* three tildes
FencePatternMatches(line) ==
    LET k == SkipSpace(line, 0)
    IN  StartsWithAt(line, Backtick \o Backtick \o Backtick, k) \/ StartsWithAt(line, "~~~", k)

\* the for loop of find_code_fence_ranges over text.splitlines(keepends=True),
\* at the line starting at offset
RECURSIVE find_code_fence_ranges_loop(_, _, _, _, _)
find_code_fence_ranges_loop(text, offset, in_fence, fence_char, fence_start) ==
    IF offset >= Len(text)
    THEN IF in_fence THEN <<<<fence_start, Len(text)>>>> ELSE <<>>
    ELSE LET next == LineEnd(text, offset)
             line == Slice(text, offset, next)
             stripped == Strip(line)
         IN  IF ~in_fence
             THEN IF FencePatternMatches(line)
                  THEN find_code_fence_ranges_loop(text, next, TRUE,
                                                   CharAt(stripped, 0), offset)
                  ELSE find_code_fence_ranges_loop(text, next, FALSE,
                                                   fence_char, fence_start)
             ELSE IF StartsWith(stripped, fence_char \o fence_char \o fence_char)
                  THEN <<<<fence_start, next>>>>
                       \o find_code_fence_ranges_loop(text, next, FALSE,
                                                      fence_char, fence_start)
                  ELSE find_code_fence_ranges_loop(text, next, TRUE,
                                                   fence_char, fence_start)

\* find_code_fence_ranges(text)
find_code_fence_ranges(text) == find_code_fence_ranges_loop(text, 0, FALSE, "", 0)

\* length of the run of backticks that starts at offset i (text[i] is a backtick)
RECURSIVE BacktickRun(_, _)
BacktickRun(text, i) ==
    IF i < Len(text) /\ CharAt(text, i) = Backtick THEN 1 + BacktickRun(text, i + 1)
    ELSE 0

\* the inner while loop of find_inline_code_ranges that closes at the first
\* backtick run, whatever its length
inline_code_close_any(text, from, run) ==
    IF Find(text, Backtick, from) = -1 THEN -1
    ELSE Find(text, Backtick, from) + BacktickRun(text, Find(text, Backtick, from))

\* the inner while loop of find_inline_code_ranges: the end of the first
\* backtick run of length run at or after j, or -1 (the else branch of the loop)
RECURSIVE inline_code_close(_, _, _)
inline_code_close(text, from, run) ==
    LET j == Find(text, Backtick, from) IN
    IF j = -1 THEN -1
    ELSE LET close_run == BacktickRun(text, j)
         IN  IF close_run = run THEN j + close_run
             ELSE inline_code_close(text, j + close_run, run)

\* the outer while loop of find_inline_code_ranges
RECURSIVE find_inline_code_ranges_loop(_, _)
find_inline_code_ranges_loop(text, from) ==
    LET i == Find(text, Backtick, from) IN
    IF i = -1 THEN <<>>
    ELSE LET run == BacktickRun(text, i) IN
         IF run >= 3 THEN find_inline_code_ranges_loop(text, i + run)
         ELSE LET e == inline_code_close(text, i + run, run)
              IN  IF e = -1 THEN find_inline_code_ranges_loop(text, i + run)
                  ELSE <<<<i, e>>>> \o find_inline_code_ranges_loop(text, e)

\* find_inline_code_ranges(text)
find_inline_code_ranges(text) == find_inline_code_ranges_loop(text, 0)

\* where the scheme https?:// that starts at offset i ends, or -1
SchemeEnd(text, i) ==
    IF StartsWithAt(text, "https://", i) THEN i + 8
    ELSE IF StartsWithAt(text, "http://", i) THEN i + 7
    ELSE -1

\* end of the longest run, from offset i, of characters that are neither
\* whitespace nor in excluded: a greedy negated character class [^...\s]+
RECURSIVE ClassRunEnd(_, _, _)
ClassRunEnd(text, i, excluded) ==
    IF i < Len(text) /\ ~IsSpace(CharAt(text, i)) /\ CharAt(text, i) \notin excluded
    THEN ClassRunEnd(text, i + 1, excluded)
    ELSE i

\* the match of <(https?://[^>\s]+)> that starts at offset i: its end, or -1
AutolinkMatchEnd(text, i) ==
    IF CharAt(text, i) # "<" THEN -1
    ELSE LET s == SchemeEnd(text, i + 1) IN
         IF s = -1 THEN -1
         ELSE LET e == ClassRunEnd(text, s, {">"})
              IN  IF e > s /\ e < Len(text) /\ CharAt(text, e) = ">" THEN e + 1
                  ELSE -1

\* the match of https?://[^\s)<>"']+ that starts at offset i: its end, or -1
BareMatchEnd(text, i) ==
    LET s == SchemeEnd(text, i) IN
    IF s = -1 THEN -1
    ELSE LET e == ClassRunEnd(text, s, {")", "<", ">", "\"", "'"})
         IN  IF e > s THEN e ELSE -1

\* used_ranges of extract_links.  It starts as the spans of matches and gets
\* the span of every match appended afterwards, so it is the spans of matches
UsedRanges(matches) == [k \in 1..Len(matches) |-> <<matches[k].start, matches[k].end>>]

\* the first for loop of extract_links, over the InlineLink records
RECURSIVE extract_inline_loop(_, _, _, _)
extract_inline_loop(inlines, k, skip_ranges, line_offsets) ==
    IF k > Len(inlines) THEN <<>>
    ELSE LET inline == inlines[k] IN
         IF in_ranges(inline.start, skip_ranges)
         THEN extract_inline_loop(inlines, k + 1, skip_ranges, line_offsets)
         ELSE LET lc == index_to_line_column(line_offsets, inline.start)
              IN  <<[kind |-> "inline",
                     start |-> inline.start,
                     end |-> inline.end,
                     text |-> inline.text,
                     href |-> inline.href,
                     line |-> lc[1],
                     column |-> lc[2],
                     segment |-> inline.segment,
                     separator |-> inline.separator,
                     dest_content |-> inline.dest_content]>>
                  \o extract_inline_loop(inlines, k + 1, skip_ranges, line_offsets)

\* the second for loop of extract_links: re.finditer of the autolink pattern,
\* looking for the next match from offset i
RECURSIVE extract_autolink_loop(_, _, _, _, _)
extract_autolink_loop(text, from, skip_ranges, line_offsets, matches) ==
    LET i == First({j \in from..(Len(text) - 1) : AutolinkMatchEnd(text, j) # -1}) IN
    IF i = -1 THEN matches
    ELSE LET end == AutolinkMatchEnd(text, i) IN
         IF in_ranges(i, skip_ranges) \/ overlaps_any(i, end, UsedRanges(matches))
         THEN extract_autolink_loop(text, end, skip_ranges, line_offsets, matches)
         ELSE LET href == Slice(text, i + 1, end - 1)
                  lc == index_to_line_column(line_offsets, i)
              IN  extract_autolink_loop(text, end, skip_ranges, line_offsets,
                      Append(matches,
                             [kind |-> "autolink",
                              start |-> i,
                              end |-> end,
                              text |-> href,
                              href |-> href,
                              line |-> lc[1],
                              column |-> lc[2],
                              segment |-> Slice(text, i, end),
                              separator |-> "",
                              dest_content |-> ""]))

\* the while loop of lines 112-115 left out: nothing is stripped
StripTrailingPunctuation_none(text, start, end) == end

\* the while loop that strips trailing punctuation from a bare URL: the end
\* of text[start:end] once its trailing characters in .,;:!? are dropped
RECURSIVE StripTrailingPunctuation(_, _, _)
StripTrailingPunctuation(text, start, end) ==
    IF end > start /\ CharAt(text, end - 1) \in {".", ",", ";", ":", "!", "?"}
    THEN StripTrailingPunctuation(text, start, end - 1)
    ELSE end

\* the third for loop of extract_links with an empty text field in what it
\* appends
RECURSIVE extract_bare_loop_no_text(_, _, _, _, _)
extract_bare_loop_no_text(text, from, skip_ranges, line_offsets, matches) ==
    LET i == First({j \in from..(Len(text) - 1) : BareMatchEnd(text, j) # -1}) IN
    IF i = -1 THEN matches
    ELSE LET match_end == BareMatchEnd(text, i) IN
         IF \/ in_ranges(i, skip_ranges)
                 \/ overlaps_any(i, match_end, UsedRanges(matches))
         THEN extract_bare_loop_no_text(text, match_end, skip_ranges, line_offsets, matches)
         ELSE LET end == StripTrailingPunctuation(text, i, match_end)
                  href == Slice(text, i, end)
                  lc == index_to_line_column(line_offsets, i)
              IN  IF href = ""
                  THEN extract_bare_loop_no_text(text, match_end, skip_ranges,
                                         line_offsets, matches)
                  ELSE extract_bare_loop_no_text(text, match_end, skip_ranges, line_offsets,
                           Append(matches,
                                  [kind |-> "bare",
                                   start |-> i,
                                   end |-> end,
                                   text |-> "",
                                   href |-> href,
                                   line |-> lc[1],
                                   column |-> lc[2],
                                   segment |-> Slice(text, i, end),
                                   separator |-> Slice(text, end, match_end),
                                   dest_content |-> ""]))

\* the third for loop of extract_links: finditer of the bare URL pattern
RECURSIVE extract_bare_loop(_, _, _, _, _)
extract_bare_loop(text, from, skip_ranges, line_offsets, matches) ==
    LET i == First({j \in from..(Len(text) - 1) : BareMatchEnd(text, j) # -1}) IN
    IF i = -1 THEN matches
    ELSE LET match_end == BareMatchEnd(text, i) IN
         IF \/ in_ranges(i, skip_ranges)
                 \/ overlaps_any(i, match_end, UsedRanges(matches))
         THEN extract_bare_loop(text, match_end, skip_ranges, line_offsets, matches)
         ELSE LET end == StripTrailingPunctuation(text, i, match_end)
                  href == Slice(text, i, end)
                  lc == index_to_line_column(line_offsets, i)
              IN  IF href = ""
                  THEN extract_bare_loop(text, match_end, skip_ranges,
                                         line_offsets, matches)
                  ELSE extract_bare_loop(text, match_end, skip_ranges, line_offsets,
                           Append(matches,
                                  [kind |-> "bare",
                                   start |-> i,
                                   end |-> end,
                                   text |-> href,
                                   href |-> href,
                                   line |-> lc[1],
                                   column |-> lc[2],
                                   segment |-> Slice(text, i, end),
                                   separator |-> Slice(text, end, match_end),
                                   dest_content |-> ""]))

\* insert m into a list sorted by start, after every entry whose start is not
\* greater: one step of a stable sort
RECURSIVE InsertByStart(_, _)
InsertByStart(sorted, m) ==
    IF sorted = <<>> THEN <<m>>
    ELSE IF sorted[Len(sorted)].start <= m.start THEN Append(sorted, m)
    ELSE Append(InsertByStart(SubSeq(sorted, 1, Len(sorted) - 1), m),
                sorted[Len(sorted)])

\* sorted(matches, key=lambda m: m.start)
RECURSIVE SortedByStart(_)
SortedByStart(matches) ==
    IF matches = <<>> THEN <<>>
    ELSE InsertByStart(SortedByStart(SubSeq(matches, 1, Len(matches) - 1)),
                       matches[Len(matches)])

\* extract_links(text)
extract_links(text) ==
    LET code_ranges == find_code_fence_ranges(text)
        inline_code_ranges == find_inline_code_ranges(text)
        html_tag_ranges == find_html_tag_ranges(text)
        skip_ranges == code_ranges \o inline_code_ranges \o html_tag_ranges
        line_offsets == build_line_offsets(text)
        inline_matches == extract_inline_loop(find_inline_links(text), 1,
                                              skip_ranges, line_offsets)
        with_autolinks == extract_autolink_loop(text, 0, skip_ranges, line_offsets,
                                                inline_matches)
        matches == extract_bare_loop(text, 0, skip_ranges, line_offsets,
                                     with_autolinks)
    IN  SortedByStart(matches)

-----------------------------------------------------------------------------
(* The link scanner run on one document.                                   *)

\* how many fragments a document of the scanner runs is made of, at most
MaxScanFragments == 3

\* the pieces the documents of the scanner runs are made of
ScanFragments ==
    {"[x](u.md)", "[y](http://a.b)", "<http://a.b>", "http://a.b.",
     "^^^\n", "\n^^^\n", "~~~\n", "^", "\n", "[", "\\", "!", "<a "}

\* every concatenation of exactly n pieces drawn from fragments
RECURSIVE Concatenations(_, _)
Concatenations(fragments, n) ==
    IF n = 0 THEN {""}
    ELSE {d \o f : d \in Concatenations(fragments, n - 1), f \in fragments}

\* every concatenation of at most n pieces: the empty piece fills the places
\* a shorter document leaves
DocumentsUpTo(fragments, n) == Concatenations(fragments \cup {""}, n)

ScanDocuments == DocumentsUpTo(ScanFragments, MaxScanFragments)

InitScan ==
    /\ pc = "start"
    /\ content \in ScanDocuments
    /\ source_file = ""
    /\ links = <<>>
    /\ result = ""
    /\ unmapped_links = <<>>
    /\ call = <<>>
    /\ ret = <<>>
    /\ NoSync
    /\ cursor = 0
    /\ NoRemote

\* links = extract_links(content)
ExtractLinks ==
    /\ pc = "start"
    /\ links' = extract_links(content)
    /\ pc' = "scanned"
    /\ UNCHANGED cursor
    /\ UNCHANGED remote_vars
    /\ UNCHANGED <<content, source_file, result, unmapped_links, call, ret>>
    /\ UNCHANGED sync_vars

NextScan == ExtractLinks

SpecScan == InitScan /\ [][NextScan]_vars

-----------------------------------------------------------------------------
(* Claims about the link scanner, checked under SpecScan.                  *)

\* two half-open spans share at least one offset
SpansOverlap(a, b) == a.start < b.end /\ b.start < a.end

\* C1: the list returned by extract_links is sorted ascending by start and no
\* two of its occurrences, of whatever kinds, have overlapping spans
\* [start, end).
C1_SortedNonOverlapping ==
    pc = "scanned" =>
        /\ \A k \in 1..(Len(links) - 1) : links[k].start <= links[k + 1].start
        /\ \A i, j \in 1..Len(links) : i # j => ~SpansOverlap(links[i], links[j])

\* C1 happens: a scan that returned an inline link and a bare URL, of a
\* document where a bare URL candidate lies inside the span of a returned
\* inline link and was turned down for overlapping it.
C1_Witness ==
    /\ pc = "scanned"
    /\ \E i, j \in 1..Len(links) : links[i].kind = "inline" /\ links[j].kind = "bare"
    /\ \E i \in 1..Len(links) :
           /\ links[i].kind = "inline"
           /\ \E o \in links[i].start..(links[i].end - 1) : BareMatchEnd(content, o) # -1

\* C2: no occurrence returned by extract_links has its whole span inside a
\* fenced code block of the document.
C2_NothingInsideFence ==
    pc = "scanned" =>
        LET fences == find_code_fence_ranges(content) IN
        \A k \in 1..Len(links) : \A f \in 1..Len(fences) :
            ~(fences[f][1] <= links[k].start /\ links[k].end <= fences[f][2])

\* C2 happens: the scanned document has a fenced block, closed by a fence
\* line, that holds the whole of an inline link.
C2_Witness ==
    /\ pc = "scanned"
    /\ LET fences == find_code_fence_ranges(content)
           inlines == find_inline_links(content)
       IN  \E f \in 1..Len(fences) : \E k \in 1..Len(inlines) :
               /\ fences[f][1] < inlines[k].start
               /\ inlines[k].end <= fences[f][2] - 5
               /\ Slice(content, fences[f][2] - 5, fences[f][2]) = "\n^^^\n"

\* an autolink is written at offset i of the scanned document in plain prose:
\* <, a URL of scheme http or https without > and whitespace, and >; its
\* start is in no fenced block and in no inline code span, in no HTML tag
\* other than the pair of angle brackets of the autolink itself, and no inline
\* link that the scan returned overlaps it
AutolinkInProse(i) ==
    /\ AutolinkMatchEnd(content, i) # -1
    /\ ~in_ranges(i, find_code_fence_ranges(content) \o find_inline_code_ranges(content))
    /\ \A t \in 1..Len(find_html_tag_ranges(content)) :
           find_html_tag_ranges(content)[t][1] = i
               \/ ~in_ranges(i, <<find_html_tag_ranges(content)[t]>>)
    /\ \A k \in 1..Len(links) :
           links[k].kind = "inline" =>
               ~(i < links[k].end /\ links[k].start < AutolinkMatchEnd(content, i))

\* C14 as stated: an autolink written in plain prose is reported by
\* extract_links as exactly one occurrence, of kind autolink, that spans from
\* its < to its > inclusive and has the URL between them for href.
C14_AutolinkReported ==
    pc = "scanned" =>
        \A i \in 0..(Len(content) - 1) :
            AutolinkInProse(i) =>
                /\ Cardinality({k \in 1..Len(links) : links[k].start = i}) = 1
                /\ \A k \in 1..Len(links) :
                       links[k].start = i =>
                           /\ links[k].kind = "autolink"
                           /\ links[k].end = AutolinkMatchEnd(content, i)
                           /\ links[k].href =
                                  Slice(content, i + 1, AutolinkMatchEnd(content, i) - 1)

-----------------------------------------------------------------------------
(* find_closing called on its own.                                         *)

\* how many characters a text handed to find_closing has, at most
MaxClosingLen == 6

\* the characters those texts are made of: both delimiter pairs and the
\* backslash; the pair that is not searched for stands for ordinary text
ClosingChars == {"[", "]", "(", ")", "\\"}

ClosingTexts == DocumentsUpTo(ClosingChars, MaxClosingLen)

\* the delimiter pairs find_inline_links calls find_closing with
ClosingPairs == {<<"[", "]">>, <<"(", ")">>}

\* find_closing is only ever called at an offset that holds the opener
InitClosing ==
    /\ pc = "start"
    /\ \E text \in ClosingTexts, pair \in ClosingPairs :
           \E start \in 0..(Len(text) - 1) :
               /\ CharAt(text, start) = pair[1]
               /\ call = [text |-> text, start |-> start,
                          opener |-> pair[1], closer |-> pair[2]]
    /\ content = ""
    /\ source_file = ""
    /\ links = <<>>
    /\ result = ""
    /\ unmapped_links = <<>>
    /\ ret = <<>>
    /\ NoSync
    /\ cursor = 0
    /\ NoRemote

\* ret = find_closing(text, start, opener, closer)
FindClosing ==
    /\ pc = "start"
    /\ ret' = find_closing(call.text, call.start, call.opener, call.closer)
    /\ pc' = "closed"
    /\ UNCHANGED cursor
    /\ UNCHANGED remote_vars
    /\ UNCHANGED <<content, source_file, links, result, unmapped_links, call>>
    /\ UNCHANGED sync_vars

NextClosing == FindClosing

SpecClosing == InitClosing /\ [][NextClosing]_vars

\* the run of backslashes that ends just before offset k, reaching back no
\* further than start: its length
BackslashesBefore(text, start, k) ==
    Cardinality({j \in start..(k - 1) :
                    \A m \in j..(k - 1) : CharAt(text, m) = "\\"})

\* the backslash at offset k escapes the character after it: it is not
\* itself escaped, that is, an even number of backslashes runs up to it
Escapes(text, start, k) ==
    CharAt(text, k) = "\\" /\ BackslashesBefore(text, start, k) % 2 = 0

\* offset k is consumed by a backslash escape: it is an escaping backslash or
\* the character just after one
Consumed(text, start, k) ==
    \/ Escapes(text, start, k)
    \/ k > start /\ Escapes(text, start, k - 1)

\* openers minus closers among the characters of text[start..i] that no
\* escape consumes
Balance(text, start, i, opener, closer) ==
    Cardinality({k \in start..i :
                    ~Consumed(text, start, k) /\ CharAt(text, k) = opener})
    - Cardinality({k \in start..i :
                      ~Consumed(text, start, k) /\ CharAt(text, k) = closer})

\* the offsets after start that hold the closer and at which the openers and
\* closers not consumed by an escape balance
BalancedClosers(text, start, opener, closer) ==
    {i \in (start + 1)..(Len(text) - 1) :
        /\ CharAt(text, i) = closer
        /\ Balance(text, start, i, opener, closer) = 0}

\* C10: find_closing, called where text[start] is the opener, returns the
\* least offset after start that holds the closer and at which the openers
\* and closers not consumed by a backslash escape balance, and -1 when there
\* is no such offset.
C10_FindClosingIsLeastBalancedCloser ==
    pc = "closed" =>
        LET S == BalancedClosers(call.text, call.start, call.opener, call.closer)
        IN  IF S = {} THEN ret = -1
            ELSE ret \in S /\ \A i \in S : ret <= i

\* C10 happens: a call that returned a closer although an escaped closer and
\* the closer of a nested pair both come before it.
C10_Witness ==
    /\ pc = "closed"
    /\ ret # -1
    /\ \E k \in (call.start + 1)..(ret - 1) :
           /\ CharAt(call.text, k) = call.closer
           /\ Consumed(call.text, call.start, k)
    /\ \E k \in (call.start + 1)..(ret - 1) :
           /\ CharAt(call.text, k) = call.closer
           /\ ~Consumed(call.text, call.start, k)

-----------------------------------------------------------------------------
(* pathlib.PurePosixPath, as far as sync-wiki.py uses it.  A path is the    *)
(* sequence of its parts; a root, "/" or "//", is the first part.           *)

\* what is left of text[i:] once its leading slashes are dropped: the offset
RECURSIVE SkipSlashes(_, _)
SkipSlashes(text, i) ==
    IF i < Len(text) /\ CharAt(text, i) = "/" THEN SkipSlashes(text, i + 1)
    ELSE i

\* the root of a path string: "//" for exactly two leading slashes, "/" for
\* any other number of them, "" for none
PathRoot(path) ==
    LET n == SkipSlashes(path, 0)
    IN  IF n = 0 THEN "" ELSE IF n = 2 THEN "//" ELSE "/"

\* the components of text[i:] between slashes, the empty ones and the ones
\* that are "." dropped
RECURSIVE PathComponents(_, _)
PathComponents(text, i) ==
    IF i >= Len(text) THEN <<>>
    ELSE LET slash == Find(text, "/", i)
             e == IF slash = -1 THEN Len(text) ELSE slash
             x == Slice(text, i, e)
         IN  (IF x = "" \/ x = "." THEN <<>> ELSE <<x>>)
             \o PathComponents(text, e + 1)

\* PurePosixPath(path).parts
PathParts(path) ==
    (IF PathRoot(path) = "" THEN <<>> ELSE <<PathRoot(path)>>)
    \o PathComponents(path, SkipSlashes(path, 0))

\* str(p) of the path with these parts
PathStr(parts) ==
    LET RECURSIVE Joined(_)
        Joined(k) ==
            IF k > Len(parts) THEN ""
            ELSE IF k = Len(parts) THEN parts[k]
            ELSE parts[k] \o "/" \o Joined(k + 1)
    IN  IF parts = <<>> THEN "."
        ELSE IF parts[1] \in {"/", "//"} THEN parts[1] \o Joined(2)
        ELSE Joined(1)

\* p.parent for the path with these parts
PathParent(parts) ==
    IF parts = <<>> THEN <<>>
    ELSE IF Len(parts) = 1 /\ parts[1] \in {"/", "//"} THEN parts
    ELSE SubSeq(parts, 1, Len(parts) - 1)

\* (p / other).parts: a rooted other replaces p
PathJoin(parts, other) ==
    IF PathRoot(other) # "" THEN PathParts(other)
    ELSE parts \o PathParts(other)

-----------------------------------------------------------------------------
(* sync-wiki.py: paths                                                     *)

\* what a function that returns str | None returns: <<>> for None and <<s>>
\* for the string s
None == <<>>
Some(s) == <<s>>

\* normalize_path(path)
normalize_path(path) == PathStr(PathParts(path))

\* remove_md_suffix(path)
remove_md_suffix(path) ==
    IF EndsWith(path, ".md") THEN Slice(path, 0, Len(path) - 3) ELSE path

\* the loop of resolve_relative_path without the count of escapes: a ".."
\* that finds no segment to pop is passed over
RECURSIVE resolve_loop_clamped(_, _, _, _)
resolve_loop_clamped(resolved, k, parts, escape_count) ==
    IF k > Len(resolved) THEN [parts |-> parts, escape_count |-> escape_count]
    ELSE LET part == resolved[k] IN
         IF part = ".."
         THEN resolve_loop_clamped(resolved, k + 1,
                  IF parts # <<>> THEN SubSeq(parts, 1, Len(parts) - 1) ELSE parts,
                  escape_count)
         ELSE IF part # "."
         THEN resolve_loop_clamped(resolved, k + 1, Append(parts, part), escape_count)
         ELSE resolve_loop_clamped(resolved, k + 1, parts, escape_count)

\* the for loop of resolve_relative_path over resolved.parts, from part k on,
\* with the list parts and escape_count as they stand
RECURSIVE resolve_loop(_, _, _, _)
resolve_loop(resolved, k, parts, escape_count) ==
    IF k > Len(resolved) THEN [parts |-> parts, escape_count |-> escape_count]
    ELSE LET part == resolved[k] IN
         IF part = ".."
         THEN IF parts # <<>>
              THEN resolve_loop(resolved, k + 1,
                                SubSeq(parts, 1, Len(parts) - 1), escape_count)
              ELSE resolve_loop(resolved, k + 1, parts, escape_count + 1)
         ELSE IF part # "."
         THEN resolve_loop(resolved, k + 1, Append(parts, part), escape_count)
         ELSE resolve_loop(resolved, k + 1, parts, escape_count)

\* the parts resolve_relative_path walks over: those of source_dir / link, or
\* of link alone for a source file at the root
ResolvedParts(src_file, link) ==
    LET source_dir == PathParent(PathParts(src_file))
    IN  IF PathStr(source_dir) = "." THEN PathParts(link)
        ELSE PathJoin(source_dir, link)

\* resolve_relative_path that forgives an escape: the segments that are left
\* are returned whatever happened on the way
resolve_relative_path_forgiving(src_file, link) ==
    Some(PathStr(resolve_loop(ResolvedParts(src_file, link), 1, <<>>, 0).parts))

\* resolve_relative_path(src_file, link)
resolve_relative_path(src_file, link) ==
    LET done == resolve_loop(ResolvedParts(src_file, link), 1, <<>>, 0)
    IN  IF done.escape_count > 0 THEN None
        ELSE Some(PathStr(done.parts))

-----------------------------------------------------------------------------
(* sync-wiki.py: the page table and convert_links                          *)

\* WIKI_STRUCTURE: the pairs (path under docs/, wiki page name), in the order
\* of the dict
WIKI_STRUCTURE == <<
    <<"best-practices/README.md", "Best-Practices">>,
    <<"best-practices/01-lifecycle-methods.md", "Lifecycle-Methods">>,
    <<"best-practices/02-null-checks.md", "Null-Checks">>,
    <<"best-practices/03-component-access.md", "Component-Access">>,
    <<"best-practices/04-serialization.md", "Serialization">>,
    <<"best-practices/05-coroutines.md", "Coroutines">>,
    <<"best-practices/06-physics.md", "Physics">>,
    <<"best-practices/07-performance-memory.md", "Performance-and-Memory">>,
    <<"best-practices/08-scriptable-objects.md", "ScriptableObjects">>,
    <<"best-practices/09-object-pooling.md", "Object-Pooling">>,
    <<"best-practices/10-event-systems.md", "Event-Systems">>,
    <<"best-practices/11-addressables.md", "Addressables">>,
    <<"best-practices/12-scene-loading.md", "Scene-Loading">>,
    <<"best-practices/13-jobs-burst.md", "Jobs-and-Burst">>,
    <<"best-practices/14-async-await.md", "Async-Await">>,
    <<"best-practices/15-profiling.md", "Profiling">>,
    <<"best-practices/16-automated-testing-ci.md", "Testing-and-CI">>,
    <<"best-practices/17-input-architecture.md", "Input-Architecture">>,
    <<"best-practices/18-save-load.md", "Save-Load">>,
    <<"animancer/README.md", "Animancer">>,
    <<"animancer/01-getting-started.md", "Animancer-Getting-Started">>,
    <<"animancer/02-core-concepts.md", "Animancer-Core-Concepts">>,
    <<"animancer/03-advanced-techniques.md", "Animancer-Advanced">>,
    <<"animancer/04-best-practices.md", "Animancer-Best-Practices">>,
    <<"animancer/05-code-examples.md", "Animancer-Code-Examples">>,
    <<"primetween/README.md", "PrimeTween">>,
    <<"primetween/01-getting-started.md", "PrimeTween-Getting-Started">>,
    <<"primetween/02-why-primetween.md", "PrimeTween-Why">>,
    <<"primetween/03-api-reference.md", "PrimeTween-API">>,
    <<"primetween/04-common-patterns.md", "PrimeTween-Patterns">>,
    <<"primetween/05-anti-patterns.md", "PrimeTween-Anti-Patterns">>,
    <<"feel/README.md", "Feel">>,
    <<"feel/01-getting-started.md", "Feel-Getting-Started">>,
    <<"feel/02-why-feel.md", "Feel-Why">>,
    <<"feel/03-feedback-catalog.md", "Feel-Feedback-Catalog">>,
    <<"feel/04-advanced-techniques.md", "Feel-Advanced">>,
    <<"feel/05-troubleshooting.md", "Feel-Troubleshooting">>,
    <<"hot-reload/README.md", "Hot-Reload">>,
    <<"hot-reload/01-getting-started.md", "Hot-Reload-Getting-Started">>,
    <<"hot-reload/02-why-hot-reload.md", "Hot-Reload-Why">>,
    <<"hot-reload/03-how-to-use.md", "Hot-Reload-Usage">>,
    <<"hot-reload/04-troubleshooting.md", "Hot-Reload-Troubleshooting">>,
    <<"hot-reload/05-best-practices.md", "Hot-Reload-Best-Practices">>,
    <<"odin/README.md", "Odin-Inspector">>,
    <<"odin/01-getting-started.md", "Odin-Getting-Started">>,
    <<"odin/02-core-features.md", "Odin-Core-Features">>,
    <<"odin/03-advanced-techniques.md", "Odin-Advanced">>,
    <<"odin/04-common-patterns.md", "Odin-Patterns">>,
    <<"odin/05-best-practices.md", "Odin-Best-Practices">>,
    <<"assembly-definitions/README.md", "Assembly-Definitions">>,
    <<"assembly-definitions/01-getting-started.md", "Assembly-Definitions-Getting-Started">>,
    <<"assembly-definitions/02-core-concepts.md", "Assembly-Definitions-Core-Concepts">>,
    <<"assembly-definitions/03-advanced-techniques.md", "Assembly-Definitions-Advanced">>,
    <<"assembly-definitions/04-common-patterns.md", "Assembly-Definitions-Patterns">>,
    <<"assembly-definitions/05-best-practices.md", "Assembly-Definitions-Best-Practices">>,
    <<"input-system/README.md", "Input-System">>,
    <<"input-system/01-getting-started.md", "Input-System-Getting-Started">>,
    <<"input-system/02-core-concepts.md", "Input-System-Core-Concepts">>,
    <<"input-system/03-advanced-techniques.md", "Input-System-Advanced">>,
    <<"input-system/04-common-patterns.md", "Input-System-Patterns">>,
    <<"input-system/05-troubleshooting.md", "Input-System-Troubleshooting">>,
    <<"tooling/README.md", "Development-Tooling">>,
    <<"tooling/01-csharpier.md", "CSharpier">>,
    <<"tooling/02-editorconfig.md", "EditorConfig">>,
    <<"tooling/03-nuget-for-unity.md", "NuGet-for-Unity">>,
    <<"tooling/04-heap-allocation-viewer.md", "Heap-Allocation-Viewer">>,
    <<"dxmessaging/README.md", "DxMessaging">>,
    <<"graphy/README.md", "Graphy">>,
    <<"better-build-info/README.md", "Better-Build-Info">>,
    <<"asset-usage-finder/README.md", "Asset-Usage-Finder">>,
    <<"unity-helpers/README.md", "Unity-Helpers">>
>>

\* ROOT_WIKI_NAMES
ROOT_WIKI_NAMES == <<
    <<"README", "Home">>,
    <<"CONTRIBUTING", "Contributing">>,
    <<"CHANGELOG", "Changelog">>
>>

\* urllib.parse.unquote on the escapes the documents checked here can hold:
\* the pairs (two hex digits, the character they stand for)
HexEscapes == <<
    <<"20", " ">>, <<"23", "#">>, <<"25", "%">>, <<"2E", ".">>, <<"2e", ".">>,
    <<"2F", "/">>, <<"2f", "/">>, <<"7C", "|">>, <<"7c", "|">>
>>

\* unquote(text[i:])
RECURSIVE unquote_from(_, _)
unquote_from(text, i) ==
    IF i >= Len(text) THEN ""
    ELSE LET hex == Slice(text, i + 1, i + 3)
             hits == {k \in 1..Len(HexEscapes) : HexEscapes[k][1] = hex}
         IN  IF CharAt(text, i) = "%" /\ i + 3 <= Len(text) /\ hits # {}
             THEN HexEscapes[CHOOSE k \in hits : TRUE][2] \o unquote_from(text, i + 3)
             ELSE CharAt(text, i) \o unquote_from(text, i + 1)

\* unquote(text): a text without a percent sign is returned as it is
unquote(text) == IF Find(text, "%", 0) = -1 THEN text ELSE unquote_from(text, 0)

\* split_anchor(href): the pair (path, anchor), the anchor None or Some(a)
split_anchor(href) ==
    LET hash == Find(href, "#", 0)
    IN  IF hash = -1 THEN <<unquote(href), None>>
        ELSE <<unquote(Slice(href, 0, hash)),
               Some(unquote(Slice(href, hash + 1, Len(href))))>>

\* is_in_table_row that never finds a table row
is_in_table_row_never(text, position) == FALSE

\* is_in_table_row(content, position)
is_in_table_row(text, position) ==
    LET line_start == RFind(text, "\n", position) + 1
        found == Find(text, "\n", position)
        line_end == IF found = -1 THEN Len(text) ELSE found
        line == Slice(text, line_start, line_end)
        stripped == Strip(line)
    IN  IF ~StartsWith(stripped, "|") THEN FALSE
        ELSE IF \A k \in 0..(Len(stripped) - 1) :
                    CharAt(stripped, k) \in {"|", "-", ":", " "}
        THEN FALSE
        ELSE TRUE

\* text.rstrip("/")
RECURSIVE RStripSlashes(_)
RStripSlashes(text) ==
    IF text # "" /\ CharAt(text, Len(text) - 1) = "/"
    THEN RStripSlashes(Slice(text, 0, Len(text) - 1))
    ELSE text

\* src_without_ext of the lookup loop of convert_links, for every src_path
\* of WIKI_STRUCTURE in its order
WikiPathsWithoutExt ==
    [k \in 1..Len(WIKI_STRUCTURE) |-> remove_md_suffix(WIKI_STRUCTURE[k][1])]

\* the keys of ROOT_WIKI_NAMES
RootNames == [k \in 1..Len(ROOT_WIKI_NAMES) |-> ROOT_WIKI_NAMES[k][1]]

\* LookupIn that takes a key for a match when wanted ends with it
LookupIn_endswith(table, keys, wanted) ==
    LET k == First({j \in 1..Len(keys) : EndsWith(wanted, keys[j])})
    IN  IF k = -1 THEN None ELSE Some(table[k][2])

\* the name that the first of the keys equal to wanted has in table, None
\* when no key is equal to it
LookupIn(table, keys, wanted) ==
    LET k == First({j \in 1..Len(keys) : keys[j] = wanted})
    IN  IF k = -1 THEN None ELSE Some(table[k][2])

\* convert_links, from the resolved path to wiki_name, with structure for
\* WIKI_STRUCTURE and structure_keys for its keys without their suffix: the
\* suffix, the docs/ prefix, the trailing slash, the lookup in structure and
\* then in ROOT_WIKI_NAMES
wiki_name_in(structure, structure_keys, resolved) ==
    LET Looked(resolved_without_ext, in_structure) ==
            IF in_structure # None THEN in_structure
            ELSE LookupIn(ROOT_WIKI_NAMES, RootNames, resolved_without_ext)
        Lookup(resolved_without_ext) ==
            Looked(resolved_without_ext,
                   LookupIn(structure, structure_keys, resolved_without_ext))
        WithoutSlash(without_docs) ==
            Lookup(IF EndsWith(without_docs, "/")
                   THEN RStripSlashes(without_docs) \o "/README"
                   ELSE without_docs)
        WithoutDocs(without_ext) ==
            WithoutSlash(IF StartsWith(without_ext, "docs/")
                         THEN Slice(without_ext, 5, Len(without_ext))
                         ELSE without_ext)
    IN  WithoutDocs(remove_md_suffix(resolved))

\* wiki_name of convert_links for a resolved path, with WIKI_STRUCTURE as the
\* module defines it
wiki_name_of(resolved) == wiki_name_in(WIKI_STRUCTURE, WikiPathsWithoutExt, resolved)

\* convert_links on one link, without the else branch that records a link
\* that has no mapping
link_target_silent(src_file, skip_ranges, link_match) ==
    LET Outcome(o, n, anchor) == [outcome |-> o, wiki_name |-> n, anchor |-> anchor]
        Named(anchor, wiki_name) ==
            IF wiki_name # None THEN Outcome("mapped", wiki_name[1], anchor)
            ELSE Outcome("skip", "", anchor)
        Resolved(anchor, resolved) ==
            IF resolved = None THEN Outcome("escapes", "", anchor)
            ELSE Named(anchor, wiki_name_of(resolved[1]))
        Split(link_path, anchor_text) ==
            IF link_path = "" THEN Outcome("skip", "", "")
            ELSE Resolved(IF anchor_text # None /\ anchor_text[1] # ""
                          THEN "#" \o anchor_text[1] ELSE "",
                          resolve_relative_path(normalize_path(src_file), link_path))
        Internal(split) == Split(split[1], split[2])
        Href(href) ==
            IF \/ StartsWith(href, "http://") \/ StartsWith(href, "https://")
               \/ StartsWith(href, "#") \/ StartsWith(href, "mailto:")
            THEN Outcome("skip", "", "")
            ELSE Internal(split_anchor(href))
    IN  IF in_ranges(link_match.start, skip_ranges) THEN Outcome("skip", "", "")
        ELSE IF link_match.kind # "inline" THEN Outcome("skip", "", "")
        ELSE Href(link_match.href)

\* convert_links on one link, with mailto: missing from the prefixes of
\* line 225
link_target_mailto_internal(src_file, skip_ranges, link_match) ==
    LET Outcome(o, n, anchor) == [outcome |-> o, wiki_name |-> n, anchor |-> anchor]
        Named(anchor, wiki_name) ==
            IF wiki_name # None THEN Outcome("mapped", wiki_name[1], anchor)
            ELSE Outcome("unmapped", "", anchor)
        Resolved(anchor, resolved) ==
            IF resolved = None THEN Outcome("escapes", "", anchor)
            ELSE Named(anchor, wiki_name_of(resolved[1]))
        Split(link_path, anchor_text) ==
            IF link_path = "" THEN Outcome("skip", "", "")
            ELSE Resolved(IF anchor_text # None /\ anchor_text[1] # ""
                          THEN "#" \o anchor_text[1] ELSE "",
                          resolve_relative_path(normalize_path(src_file), link_path))
        Internal(split) == Split(split[1], split[2])
        Href(href) ==
            IF \/ StartsWith(href, "http://") \/ StartsWith(href, "https://")
               \/ StartsWith(href, "#")
            THEN Outcome("skip", "", "")
            ELSE Internal(split_anchor(href))
    IN  IF in_ranges(link_match.start, skip_ranges) THEN Outcome("skip", "", "")
        ELSE IF link_match.kind # "inline" THEN Outcome("skip", "", "")
        ELSE Href(link_match.href)

\* convert_links on one link: what happens to it.  "skip" for a link that is
\* left alone without a record, "escapes" and "unmapped" for the two records,
\* "mapped" for a rewrite to wiki_name with the anchor as it is rendered.
link_target(src_file, skip_ranges, link_match) ==
    LET Outcome(o, n, anchor) == [outcome |-> o, wiki_name |-> n, anchor |-> anchor]
        Named(anchor, wiki_name) ==
            IF wiki_name # None THEN Outcome("mapped", wiki_name[1], anchor)
            ELSE Outcome("unmapped", "", anchor)
        Resolved(anchor, resolved) ==
            IF resolved = None THEN Outcome("escapes", "", anchor)
            ELSE Named(anchor, wiki_name_of(resolved[1]))
        Split(link_path, anchor_text) ==
            IF link_path = "" THEN Outcome("skip", "", "")
            ELSE Resolved(IF anchor_text # None /\ anchor_text[1] # ""
                          THEN "#" \o anchor_text[1] ELSE "",
                          resolve_relative_path(normalize_path(src_file), link_path))
        Internal(split) == Split(split[1], split[2])
        Href(href) ==
            IF \/ StartsWith(href, "http://") \/ StartsWith(href, "https://")
               \/ StartsWith(href, "#") \/ StartsWith(href, "mailto:")
            THEN Outcome("skip", "", "")
            ELSE Internal(split_anchor(href))
    IN  IF in_ranges(link_match.start, skip_ranges) THEN Outcome("skip", "", "")
        ELSE IF link_match.kind # "inline" THEN Outcome("skip", "", "")
        ELSE Href(link_match.href)

\* display_text of convert_links
display_text_of(link_text, wiki_name) ==
    IF Strip(link_text) # "" THEN link_text ELSE wiki_name

\* new_link of convert_links
new_link_of(text, link_match, target) ==
    LET display_text == display_text_of(link_match.text, target.wiki_name)
        in_table == is_in_table_row(text, link_match.start)
        separator == IF in_table THEN "\\|" ELSE "|"
    IN  "[[" \o display_text \o separator \o target.wiki_name \o target.anchor \o "]]"

\* the for loop of convert_links over reversed(links), from links[k] down,
\* with result and _unmapped_links as they stand
RECURSIVE convert_loop(_, _, _, _, _, _, _)
convert_loop(text, src_file, skip_ranges, found, k, res, unmapped) ==
    LET Body(link_match, target) ==
            IF target.outcome = "escapes"
            THEN convert_loop(text, src_file, skip_ranges, found, k - 1, res,
                     Append(unmapped, <<src_file, link_match.href,
                                        "path escapes documentation root">>))
            ELSE IF target.outcome = "unmapped"
            THEN convert_loop(text, src_file, skip_ranges, found, k - 1, res,
                     Append(unmapped, <<src_file, link_match.href,
                                        "no mapping found">>))
            ELSE IF target.outcome = "mapped"
            THEN convert_loop(text, src_file, skip_ranges, found, k - 1,
                     Slice(res, 0, link_match.start)
                         \o new_link_of(text, link_match, target)
                         \o Slice(res, link_match.end, Len(res)),
                     unmapped)
            ELSE convert_loop(text, src_file, skip_ranges, found, k - 1, res, unmapped)
    IN  IF k = 0 THEN [result |-> res, unmapped_links |-> unmapped]
        ELSE Body(found[k], link_target(src_file, skip_ranges, found[k]))

\* convert_links that goes over links from the first to the last
convert_links_forward(text, src_file, unmapped) ==
    LET Returned(found, done) ==
            [links |-> found, result |-> done.result,
             unmapped_links |-> done.unmapped_links]
        Converted(skip_ranges, found) ==
            Returned(found,
                     convert_loop(text, src_file, skip_ranges,
                                  [k \in 1..Len(found) |-> found[Len(found) + 1 - k]],
                                  Len(found), text, unmapped))
    IN  Converted(find_code_fence_ranges(text) \o find_inline_code_ranges(text),
                  extract_links(text))

\* convert_links(content, source_file), with the links it extracted and the
\* _unmapped_links it leaves behind
convert_links(text, src_file, unmapped) ==
    LET Returned(found, done) ==
            [links |-> found, result |-> done.result,
             unmapped_links |-> done.unmapped_links]
        Converted(skip_ranges, found) ==
            Returned(found, convert_loop(text, src_file, skip_ranges, found,
                                         Len(found), text, unmapped))
    IN  Converted(find_code_fence_ranges(text) \o find_inline_code_ranges(text),
                  extract_links(text))

-----------------------------------------------------------------------------
(* convert_links called on a document of a source file.                    *)

\* how many fragments a document handed to convert_links is made of, at most
MaxConvertFragments == 2

\* the fragments: links to pages of WIKI_STRUCTURE and of ROOT_WIKI_NAMES, to
\* a path above the root, links with an anchor, with blank-padded, empty and
\* backslash-ended text, a link in a table row of its own, an external link,
\* links with emphasised and with snake_case text, a link to a directory,
\* a bracket and a parenthesis that are never closed, a fence, and what
\* makes a table row
ConvertFragments == {
    "[Coroutines](05-coroutines.md)",
    "[Tips](./05-coroutines.md#intro)",
    "\n| [Tips](./05-coroutines.md#intro) |\n",
    "[ Null ](02-null-checks.md)",
    "[a\\\\](06-physics.md)",
    "[P](06-physics.md#x|y)",
    "[](../README.md)",
    "[x](../../secret.md)",
    "[Tool](docs/tooling/README.md)",
    "[e](http://a.b)",
    "[**Coroutines**](05-coroutines.md)",
    "[snake_case_var](06-physics.md)",
    "[Dir](./docs/tooling/)",
    "[", "[z](u.md",
    "^^^\n",
    "| ", "\n"}

\* the source files: at the root, and one directory deep as every page of
\* WIKI_STRUCTURE is
ConvertSources == {"README.md", "best-practices/README.md"}

Init ==
    /\ pc = "start"
    /\ content \in DocumentsUpTo(ConvertFragments, MaxConvertFragments)
    /\ source_file \in ConvertSources
    /\ links = <<>>
    /\ result = ""
    /\ unmapped_links = <<>>
    /\ call = <<>>
    /\ ret = <<>>
    /\ NoSync
    /\ cursor = 0
    /\ NoRemote

\* result = convert_links(content, source_file)
ConvertLinks ==
    /\ pc = "start"
    /\ \E done \in {convert_links(content, source_file, unmapped_links)} :
           /\ links' = done.links
           /\ result' = done.result
           /\ unmapped_links' = done.unmapped_links
    /\ pc' = "converted"
    /\ UNCHANGED cursor
    /\ UNCHANGED remote_vars
    /\ UNCHANGED <<content, source_file, call, ret>>
    /\ UNCHANGED sync_vars

Next == ConvertLinks

Spec == Init /\ [][Next]_vars

-----------------------------------------------------------------------------
(* check_wiki_links.py: the reverse parser                                 *)

\* _split_wiki_link_on_pipe that keeps the backslash of an escaped pipe in the
\* display text
_split_wiki_link_on_pipe_keeping_backslash(inner) ==
    LET pipe_idx == RFind(inner, "|", Len(inner))
    IN  IF pipe_idx < 0 THEN <<"", inner>>
        ELSE <<Slice(inner, 0, pipe_idx), Slice(inner, pipe_idx + 1, Len(inner))>>

\* _split_wiki_link_on_pipe that splits at the first pipe
_split_wiki_link_on_pipe_first(inner) ==
    LET pipe_idx == Find(inner, "|", 0)
        is_escaped_pipe == pipe_idx > 0 /\ CharAt(inner, pipe_idx - 1) = "\\"
        display_text == IF is_escaped_pipe THEN Slice(inner, 0, pipe_idx - 1)
                        ELSE Slice(inner, 0, pipe_idx)
    IN  IF pipe_idx < 0 THEN <<"", inner>>
        ELSE <<display_text, Slice(inner, pipe_idx + 1, Len(inner))>>

\* _split_wiki_link_on_pipe(inner): the pair (display_text, page_part)
_split_wiki_link_on_pipe(inner) ==
    LET pipe_idx == RFind(inner, "|", Len(inner))
        is_escaped_pipe == pipe_idx > 0 /\ CharAt(inner, pipe_idx - 1) = "\\"
        display_text == IF is_escaped_pipe THEN Slice(inner, 0, pipe_idx - 1)
                        ELSE Slice(inner, 0, pipe_idx)
    IN  IF pipe_idx < 0 THEN <<"", inner>>
        ELSE <<display_text, Slice(inner, pipe_idx + 1, Len(inner))>>

\* _parse_wiki_link(inner, line_num)
_parse_wiki_link(inner, line_num) ==
    LET split == _split_wiki_link_on_pipe(inner)
        display_text == split[1]
        page_part == split[2]
        hash == Find(page_part, "#", 0)
        page_name == IF hash # -1 THEN Slice(page_part, 0, hash) ELSE page_part
        anchor == IF hash # -1 THEN "#" \o Slice(page_part, hash + 1, Len(page_part))
                  ELSE ""
    IN  [display_text |-> Strip(display_text),
         page_name |-> Strip(page_name),
         anchor |-> anchor,
         line_num |-> line_num]

-----------------------------------------------------------------------------
\* the links of the converted document, as the claims speak of them

\* the href of links[k] is internal and has a path: it starts with none of
\* http://, https://, # and mailto:, and something precedes its anchor
IsInternal(k) ==
    /\ links[k].kind = "inline"
    /\ ~StartsWith(links[k].href, "http://")
    /\ ~StartsWith(links[k].href, "https://")
    /\ ~StartsWith(links[k].href, "#")
    /\ ~StartsWith(links[k].href, "mailto:")
    /\ split_anchor(links[k].href)[1] # ""

\* what the path of links[k] resolves to from source_file
ResolvedOf(k) ==
    resolve_relative_path(normalize_path(source_file), split_anchor(links[k].href)[1])

\* links[k] is mapped: internal, inside the root, and its path has a page
IsMapped(k) ==
    /\ IsInternal(k)
    /\ ResolvedOf(k) # None
    /\ wiki_name_of(ResolvedOf(k)[1]) # None

\* links[k] has no mapping: internal, inside the root, and without a page
HasNoMapping(k) ==
    /\ IsInternal(k)
    /\ ResolvedOf(k) # None
    /\ wiki_name_of(ResolvedOf(k)[1]) = None

\* the page id P, the anchor A as rendered and the display text D of a mapped
\* links[k]
PageIdOf(k) == wiki_name_of(ResolvedOf(k)[1])[1]

AnchorOf(k) ==
    LET anchor_text == split_anchor(links[k].href)[2]
    IN  IF anchor_text = None \/ anchor_text = Some("") THEN ""
        ELSE "#" \o anchor_text[1]

DisplayOf(k) == IF Strip(links[k].text) = "" THEN PageIdOf(k) ELSE links[k].text

\* how much longer than links[j] what convert_links put in its place is
GrowthOf(j) ==
    LET target == link_target(source_file,
                      find_code_fence_ranges(content) \o find_inline_code_ranges(content),
                      links[j])
    IN  IF target.outcome = "mapped"
        THEN Len(new_link_of(content, links[j], target)) - (links[j].end - links[j].start)
        ELSE 0

\* where the span of links[k] starts and ends in result: its offsets in
\* content, moved by the growth of the links before it
RECURSIVE GrowthBefore(_)
GrowthBefore(k) == IF k <= 1 THEN 0 ELSE GrowthBefore(k - 1) + GrowthOf(k - 1)

OutStart(k) == links[k].start + GrowthBefore(k)

OutEnd(k) == links[k].end + GrowthBefore(k) + GrowthOf(k)

\* what stands in result in the place of links[k]
Rendered(k) == Slice(result, OutStart(k), OutEnd(k))

\* the line of content that holds offset position, trimmed
TrimmedLineAt(text, position) ==
    LET line_start == RFind(text, "\n", position) + 1
        found == Find(text, "\n", position)
    IN  Strip(Slice(text, line_start, IF found = -1 THEN Len(text) ELSE found))

\* the cells of a trimmed row: its pieces between pipes, without the empty
\* piece before a leading pipe and the one after a trailing pipe
CellsOf(row) ==
    LET pieces == SplitOn(row, "|", 0)
        first == IF Strip(pieces[1]) = "" THEN 2 ELSE 1
        last == IF Strip(pieces[Len(pieces)]) = "" THEN Len(pieces) - 1 ELSE Len(pieces)
    IN  SubSeq(pieces, first, last)

\* the rule for a separator row: only pipes, dashes, colons and spaces, and
\* at least three consecutive dashes in every cell
IsSeparatorRowByRule(row) ==
    /\ \A i \in 0..(Len(row) - 1) : CharAt(row, i) \in {"|", "-", ":", " "}
    /\ \A c \in 1..Len(CellsOf(row)) :
           \E i \in 0..(Len(CellsOf(row)[c]) - 3) : Slice(CellsOf(row)[c], i, i + 3) = "---"

\* the rule for a table row: the trimmed line starts with a pipe and is not a
\* separator row
IsTableRowByRule(text, position) ==
    /\ StartsWith(TrimmedLineAt(text, position), "|")
    /\ ~IsSeparatorRowByRule(TrimmedLineAt(text, position))

\* C3 as stated: a mapped link whose display text equals the page id is
\* rendered in the short form [[PageId]], or [[PageId#anchor]], inside a table
\* row and outside, and never as [[PageId|PageId]] or [[PageId\|PageId]].
C3_ShortFormWhenEqual ==
    pc = "converted" =>
        \A k \in 1..Len(links) :
            IsMapped(k) /\ DisplayOf(k) = PageIdOf(k)
                => Rendered(k) = "[[" \o PageIdOf(k) \o AnchorOf(k) \o "]]"

\* C4: a mapped link rendered in the long form has the separator \| exactly
\* when the line of the original document that holds the start of the link is
\* a table row, and the separator | otherwise.
C4_SeparatorFollowsTableRow ==
    pc = "converted" =>
        \A k \in 1..Len(links) :
            IsMapped(k) /\ Rendered(k) # "[[" \o PageIdOf(k) \o AnchorOf(k) \o "]]"
                => Rendered(k) =
                       "[[" \o DisplayOf(k)
                            \o (IF IsTableRowByRule(content, links[k].start)
                                THEN "\\|" ELSE "|")
                            \o PageIdOf(k) \o AnchorOf(k) \o "]]"

\* C4 happens: the same link stands twice in one document, inside a table row
\* and outside, and both are rewritten.
C4_Witness ==
    /\ pc = "converted"
    /\ \E j, k \in 1..Len(links) :
           /\ IsMapped(j) /\ IsMapped(k)
           /\ links[j].segment = links[k].segment
           /\ IsTableRowByRule(content, links[j].start)
           /\ ~IsTableRowByRule(content, links[k].start)
           /\ Rendered(j) # Rendered(k)

\* how many entries of a sequence are equal to x
CountOf(seq, x) == Cardinality({i \in 1..Len(seq) : seq[i] = x})

C8_UnmappedRecordedOnceAndUnchanged ==
    pc = "converted" =>
        /\ \A k \in 1..Len(links) :
               HasNoMapping(k) =>
                   /\ Rendered(k) = Slice(content, links[k].start, links[k].end)
                   /\ CountOf(unmapped_links,
                              <<source_file, links[k].href, "no mapping found">>)
                          = Cardinality({j \in 1..Len(links) :
                                            HasNoMapping(j) /\ links[j].href = links[k].href})
        /\ \A r \in 1..Len(unmapped_links) :
               unmapped_links[r][3] = "no mapping found" =>
                   \E k \in 1..Len(links) :
                       /\ HasNoMapping(k)
                       /\ unmapped_links[r] = <<source_file, links[k].href, "no mapping found">>

\* C8 happens: a link without a page stands after a link that was rewritten,
\* so that its span has moved.
C8_Witness ==
    /\ pc = "converted"
    /\ \E j, k \in 1..Len(links) :
           /\ j < k
           /\ IsMapped(j)
           /\ HasNoMapping(k)
           /\ OutStart(k) # links[k].start

\* what the reverse parser makes of what stands in the place of links[k]:
\* the triple (display text, page id, anchor) of the text between [[ and ]]
ParsedOf(k) ==
    LET parsed == _parse_wiki_link(Slice(Rendered(k), 2, Len(Rendered(k)) - 2), links[k].line)
    IN  <<parsed.display_text, parsed.page_name, parsed.anchor>>

\* the triple the round trip is to give back for a mapped links[k]: with an
\* empty display text when it was rendered in the short form
TripleOf(k) ==
    IF Rendered(k) = "[[" \o PageIdOf(k) \o AnchorOf(k) \o "]]"
    THEN <<"", PageIdOf(k), AnchorOf(k)>>
    ELSE <<DisplayOf(k), PageIdOf(k), AnchorOf(k)>>

ReadsBack(k) ==
    /\ Strip(DisplayOf(k)) = DisplayOf(k)
    /\ ~(EndsWith(DisplayOf(k), "\\") /\ ~IsTableRowByRule(content, links[k].start))
    /\ Find(AnchorOf(k), "|", 0) = -1

IsWordChar(c) ==
    IsAlpha(c) \/ c \in {"0", "1", "2", "3", "4", "5", "6", "7", "8", "9", "_"}

\* an emphasis marker opens at offset i of text, and closes at offset j; a
\* word-bounded marker has no word character outside it
OpensAt(text, marker, word_bounded, i) ==
    /\ StartsWithAt(text, marker, i)
    /\ word_bounded => i = 0 \/ ~IsWordChar(CharAt(text, i - 1))

ClosesAt(text, marker, word_bounded, j) ==
    /\ StartsWithAt(text, marker, j)
    /\ word_bounded =>
           j + Len(marker) = Len(text) \/ ~IsWordChar(CharAt(text, j + Len(marker)))

\* where the marker that opens at offset i closes: the nearest offset with at
\* least one character, and no line end, in between; -1 when there is none
CloserOf(text, marker, word_bounded, i) ==
    First({j \in (i + Len(marker) + 1)..(Len(text) - 1) :
              /\ ClosesAt(text, marker, word_bounded, j)
              /\ Find(Slice(text, i + Len(marker), j), "\n", 0) = -1})

\* text[from:] with every pair of one emphasis marker taken away, left to right
RECURSIVE WithoutMarker(_, _, _, _)
WithoutMarker(text, marker, word_bounded, from) ==
    LET i == First({a \in from..(Len(text) - 1) :
                       /\ OpensAt(text, marker, word_bounded, a)
                       /\ CloserOf(text, marker, word_bounded, a) # -1})
        j == CloserOf(text, marker, word_bounded, i)
    IN  IF i = -1 THEN Slice(text, from, Len(text))
        ELSE Slice(text, from, i) \o Slice(text, i + Len(marker), j)
                 \o WithoutMarker(text, marker, word_bounded, j + Len(marker))

\* the link text with its emphasis markers stripped: **x**, __x__, *x* and
\* the word-bounded _x_, in this order, so that nested markers go as well
EmphasisStripped(text) ==
    WithoutMarker(
        WithoutMarker(
            WithoutMarker(
                WithoutMarker(text, "**", FALSE, 0),
                "__", FALSE, 0),
            "*", FALSE, 0),
        "_", TRUE, 0)

\* the display text that is to stand for a mapped links[k]: its text without
\* emphasis markers, the page id when the text is blank
StrippedDisplayOf(k) ==
    IF Strip(links[k].text) = "" THEN PageIdOf(k) ELSE EmphasisStripped(links[k].text)

\* C11 as stated: the display text written for a mapped link is the text of
\* the link with its emphasis markers stripped, and with the underscores of a
\* snake_case identifier left alone: what stands in the place of the link is
\* [[D|P A]] or [[D\|P A]] with that display text D, or [[P A]] when D is the
\* page id P; so [**Coroutines**](...) does not come out with ** in it.
C11_EmphasisStripped ==
    pc = "converted" =>
        \A k \in 1..Len(links) :
            IsMapped(k) =>
                \/ Rendered(k) = "[[" \o StrippedDisplayOf(k) \o "|"
                                      \o PageIdOf(k) \o AnchorOf(k) \o "]]"
                \/ Rendered(k) = "[[" \o StrippedDisplayOf(k) \o "\\|"
                                      \o PageIdOf(k) \o AnchorOf(k) \o "]]"
                \/ /\ StrippedDisplayOf(k) = PageIdOf(k)
                   /\ Rendered(k) = "[[" \o PageIdOf(k) \o AnchorOf(k) \o "]]"

\* the directory that an internal links[k] names, as the page table knows it:
\* the resolved path without a leading docs/
DirectoryOf(k) ==
    IF StartsWith(ResolvedOf(k)[1], "docs/")
    THEN Slice(ResolvedOf(k)[1], 5, Len(ResolvedOf(k)[1]))
    ELSE ResolvedOf(k)[1]

\* links[k] is a link to a directory inside the root: its path ends in /
IsDirectoryLink(k) ==
    /\ IsInternal(k)
    /\ EndsWith(split_anchor(links[k].href)[1], "/")
    /\ ResolvedOf(k) # None

\* the page that WIKI_STRUCTURE has under the key <dir>/README.md, None when
\* it has no such key
DirectoryPageOf(k) ==
    IF \E i \in 1..Len(WIKI_STRUCTURE) :
           WIKI_STRUCTURE[i][1] = DirectoryOf(k) \o "/README.md"
    THEN Some(WIKI_STRUCTURE[CHOOSE i \in 1..Len(WIKI_STRUCTURE) :
                  WIKI_STRUCTURE[i][1] = DirectoryOf(k) \o "/README.md"][2])
    ELSE None

\* C12 as stated: an internal link whose path ends in / is looked up under
\* <dir>/README.md, and when the page table has that key the link is
\* rewritten to the wiki link of that page and no "no mapping found" record
\* is made for it.
C12_DirectoryLinkIsReadme ==
    pc = "converted" =>
        \A k \in 1..Len(links) :
            IsDirectoryLink(k) /\ DirectoryPageOf(k) # None =>
                /\ StartsWith(Rendered(k), "[[")
                /\ EndsWith(Rendered(k), DirectoryPageOf(k)[1] \o AnchorOf(k) \o "]]")
                /\ CountOf(unmapped_links,
                           <<source_file, links[k].href, "no mapping found">>) = 0

\* the offsets of text from start on that no backslash escape consumes: not
\* a backslash that an even number of backslashes runs up to, and not the
\* character after such a backslash
Unconsumed(text, start) ==
    LET RunBefore(k) ==
            IF Last({j \in start..(k - 1) : CharAt(text, j) # "\\"}) = -1 THEN k - start
            ELSE k - 1 - Last({j \in start..(k - 1) : CharAt(text, j) # "\\"})
        EscapesAt(k) == CharAt(text, k) = "\\" /\ RunBefore(k) % 2 = 0
    IN  {k \in start..(Len(text) - 1) :
            ~EscapesAt(k) /\ ~(k > start /\ EscapesAt(k - 1))}

\* the closer that matches the opener at offset start: the first unconsumed
\* closer at which unconsumed openers and closers balance, -1 when none does
MatchingCloser(text, start, opener, closer) ==
    LET free == Unconsumed(text, start)
    IN  First({i \in free :
                  /\ CharAt(text, i) = closer
                  /\ Cardinality({k \in free : k <= i /\ CharAt(text, k) = opener})
                         = Cardinality({k \in free : k <= i /\ CharAt(text, k) = closer})})

\* the [ at offset i of the document has no matching ], or the ( that follows
\* its ] has no matching )
MalformedAt(i) ==
    /\ CharAt(content, i) = "["
    /\ LET close == MatchingCloser(content, i, "[", "]")
           paren == SkipSpace(content, close + 1)
       IN  \/ close = -1
           \/ /\ CharAt(content, paren) = "("
              /\ MatchingCloser(content, paren, "(", ")") = -1

\* where in content, and where in result, the text between links[k - 1] and
\* links[k] starts and ends; for k = Len(links) + 1 the text after the last link
GapOf(k) ==
    [from |-> IF k = 1 THEN 0 ELSE links[k - 1].end,
     to |-> IF k > Len(links) THEN Len(content) ELSE links[k].start,
     out_from |-> IF k = 1 THEN 0 ELSE OutEnd(k - 1),
     out_to |-> IF k > Len(links) THEN Len(result) ELSE OutStart(k)]

WikiTextOf(k) ==
    "[[" \o DisplayOf(k)
         \o (IF is_in_table_row(content, links[k].start) THEN "\\|" ELSE "|")
         \o PageIdOf(k) \o AnchorOf(k) \o "]]"

\* content from offset from on, with the span of every mapped link from
\* links[k] on replaced by its wiki text
RECURSIVE SplicedFrom(_, _)
SplicedFrom(k, from) ==
    IF k > Len(links) THEN Slice(content, from, Len(content))
    ELSE Slice(content, from, links[k].start)
             \o (IF IsMapped(k) THEN WikiTextOf(k)
                 ELSE Slice(content, links[k].start, links[k].end))
             \o SplicedFrom(k + 1, links[k].end)

\* C18: the output of convert_links is the original text with the span
\* [start, end) of every rewritten link replaced by the wiki text of that
\* link and every other character kept in its order; no replacement moves or
\* damages the span of a link replaced after it.
C18_SplicedBackToFront == pc = "converted" => result = SplicedFrom(1, 0)

\* C18 happens: two links of one document were rewritten, the
\* earlier ones after the later ones, and what replaced them is not as long
\* as they were.
C18_Witness ==
    /\ pc = "converted"
    /\ \E i, j \in 1..Len(links) :
           /\ i < j
           /\ IsMapped(i) /\ IsMapped(j)
           /\ Len(WikiTextOf(i)) # links[i].end - links[i].start
           /\ Len(WikiTextOf(j)) # links[j].end - links[j].start

-----------------------------------------------------------------------------
(* is_in_table_row called on its own.                                      *)

\* how many fragments a document handed to is_in_table_row is made of, at
\* most
MaxTableFragments == 3

\* the fragments: rows whose cells hold one, two and three dashes, a colon,
\* aligned dashes and text, a line break, an indent, and text that keeps a
\* line from starting with a pipe
TableFragments == {"| - | : |", "| -- | - |", "| --- | -- |", "| --- | --- |",
                   "| :---: | :--- |", "| x | y |", "\n", "  ", "x "}

InitTable ==
    /\ pc = "start"
    /\ \E text \in DocumentsUpTo(TableFragments, MaxTableFragments) :
           \E position \in 0..Len(text) :
               call = [content |-> text, position |-> position]
    /\ content = ""
    /\ source_file = ""
    /\ links = <<>>
    /\ result = ""
    /\ unmapped_links = <<>>
    /\ ret = <<>>
    /\ NoSync
    /\ cursor = 0
    /\ NoRemote

\* ret = is_in_table_row(content, position)
IsInTableRow ==
    /\ pc = "start"
    /\ ret' = is_in_table_row(call.content, call.position)
    /\ pc' = "classified"
    /\ UNCHANGED cursor
    /\ UNCHANGED remote_vars
    /\ UNCHANGED <<content, source_file, links, result, unmapped_links, call>>
    /\ UNCHANGED sync_vars

NextTable == IsInTableRow

SpecTable == InitTable /\ [][NextTable]_vars

\* C5 as stated: is_in_table_row takes a line for a table row exactly when
\* its trimmed form starts with a pipe and it is not a separator row, a
\* separator row being one of only pipes, dashes, colons and spaces in which
\* every cell has at least three consecutive dashes; so "| - | : |",
\* "| -- | - |" and "| --- | -- |" are table rows, "| --- | --- |" and
\* "| :---: | :--- |" are not.
C5_TableRowUnlessSeparator ==
    pc = "classified" => ret = IsTableRowByRule(call.content, call.position)

-----------------------------------------------------------------------------
(* resolve_relative_path called on its own.                                *)

\* how many pieces a link path handed to resolve_relative_path is made of, at
\* most
MaxLinkPieces == 5

\* the pieces of those link paths
LinkPieces == {"..", ".", "/", "a", "b.md"}

\* the source files: at the root, one directory deep as every page of
\* WIKI_STRUCTURE is, two directories deep
ResolveSources == {"README.md", "best-practices/README.md", "a/b/f.md"}

InitResolve ==
    /\ pc = "start"
    /\ \E source \in ResolveSources, link \in DocumentsUpTo(LinkPieces, MaxLinkPieces) :
           call = [source_file |-> source, link |-> link]
    /\ content = ""
    /\ source_file = ""
    /\ links = <<>>
    /\ result = ""
    /\ unmapped_links = <<>>
    /\ ret = <<>>
    /\ NoSync
    /\ cursor = 0
    /\ NoRemote

\* ret = resolve_relative_path(normalize_path(source_file), link), as
\* convert_links calls it
ResolveRelativePath ==
    /\ pc = "start"
    /\ ret' = resolve_relative_path(normalize_path(call.source_file), call.link)
    /\ pc' = "resolved"
    /\ UNCHANGED cursor
    /\ UNCHANGED remote_vars
    /\ UNCHANGED <<content, source_file, links, result, unmapped_links, call>>
    /\ UNCHANGED sync_vars

NextResolve == ResolveRelativePath

SpecResolve == InitResolve /\ [][NextResolve]_vars

\* how many of the first k segments are ".."
DotDotsUpTo(segments, k) == Cardinality({j \in 1..k : segments[j] = ".."})

\* how many of the first k segments are names: neither ".." nor "."
NamesUpTo(segments, k) == Cardinality({j \in 1..k : segments[j] \notin {"..", "."}})

\* some ".." is met while no segment is accumulated: up to it, the ".."
\* outnumber the names
EscapesRoot(segments) ==
    \E k \in 1..Len(segments) : DotDotsUpTo(segments, k) > NamesUpTo(segments, k)

\* segment k is a name that no later ".." pops
Survives(segments, k) ==
    /\ segments[k] \notin {"..", "."}
    /\ \A m \in (k + 1)..Len(segments) :
           DotDotsUpTo(segments, m) - DotDotsUpTo(segments, k)
               <= NamesUpTo(segments, m) - NamesUpTo(segments, k)

\* the segments that survive, in their order
RECURSIVE SurvivorsFrom(_, _)
SurvivorsFrom(segments, k) ==
    IF k > Len(segments) THEN <<>>
    ELSE (IF Survives(segments, k) THEN <<segments[k]>> ELSE <<>>)
         \o SurvivorsFrom(segments, k + 1)

\* no segment of the path string is "." or ".."
NoDotSegments(path) ==
    LET pieces == SplitOn(path, "/", 0)
    IN  \A k \in 1..Len(pieces) : pieces[k] \notin {".", ".."}

\* the segments of dirname(source_file)/link of the call
CallSegments == ResolvedParts(normalize_path(call.source_file), call.link)

\* C7 as stated: resolve_relative_path returns None exactly when some ".." is
\* met while no segment is accumulated; otherwise it returns the normalised
\* path, which has no "." and no ".." segment.
C7_AsStated ==
    pc = "resolved" =>
        /\ (ret = None) <=> EscapesRoot(CallSegments)
        /\ ret # None =>
               /\ ret[1] = PathStr(SurvivorsFrom(CallSegments, 1))
               /\ NoDotSegments(ret[1])

\* C7, amended: resolve_relative_path returns None exactly when some ".." is
\* met while no segment is accumulated; otherwise it returns the surviving
\* segments joined by "/", which has no "." and no ".." segment, except that
\* when no segment survives it returns the path ".".
C7_ResolveRelativePath ==
    pc = "resolved" =>
        /\ (ret = None) <=> EscapesRoot(CallSegments)
        /\ ret # None =>
               /\ ret[1] = PathStr(SurvivorsFrom(CallSegments, 1))
               /\ IF SurvivorsFrom(CallSegments, 1) = <<>> THEN ret[1] = "."
                  ELSE NoDotSegments(ret[1])

\* C7 happens: a path that escapes the root and descends again afterwards is
\* turned down.
C7_Witness ==
    /\ pc = "resolved"
    /\ ret = None
    /\ \E k \in 2..Len(CallSegments) :
           /\ CallSegments[k] \notin {"..", "."}
           /\ EscapesRoot(SubSeq(CallSegments, 1, k - 1))

-----------------------------------------------------------------------------
(* The page lookup of convert_links called on its own, with a page table   *)
(* as a caller may have set it: the tests of the repository add entries to *)
(* WIKI_STRUCTURE before they call convert_links.                          *)

\* how many entries the page table of a lookup has, at most
MaxStructureEntries == 2

\* the entries the page tables are made of: one under the name of a root
\* file, one in a directory, and ones whose key is the end or the start of
\* another key
StructureEntries ==
    {<<"README.md", "Read-Me">>, <<"a/b.md", "A-B">>, <<"b.md", "B">>, <<"a.md", "A">>}

\* the resolved paths that are looked up
LookupPaths ==
    {"README.md", "CHANGELOG.md", "CONTRIBUTING", "docs/README.md",
     "a/b.md", "b.md", "a", "a/b", "docs/a/b.md", "x/a/b.md", "a/b.md/c.md", "b"}

\* every page table of at most n entries, no entry twice
RECURSIVE StructuresUpTo(_)
StructuresUpTo(n) ==
    IF n = 0 THEN {<<>>}
    ELSE StructuresUpTo(n - 1)
         \cup {Append(t, entry) : t \in {u \in StructuresUpTo(n - 1) : Len(u) = n - 1},
                                  entry \in StructureEntries}

InitLookup ==
    /\ pc = "start"
    /\ \E structure \in {t \in StructuresUpTo(MaxStructureEntries) :
                            \A i, j \in 1..Len(t) : i # j => t[i][1] # t[j][1]} :
       \E resolved \in LookupPaths :
           call = [structure |-> structure, resolved |-> resolved]
    /\ content = ""
    /\ source_file = ""
    /\ links = <<>>
    /\ result = ""
    /\ unmapped_links = <<>>
    /\ ret = <<>>
    /\ NoSync
    /\ cursor = 0
    /\ NoRemote

\* wiki_name as lines 248-271 of convert_links leave it for the resolved path
LookupWikiName ==
    /\ pc = "start"
    /\ ret' = wiki_name_in(call.structure,
                           [k \in 1..Len(call.structure) |->
                                remove_md_suffix(call.structure[k][1])],
                           call.resolved)
    /\ pc' = "looked"
    /\ UNCHANGED cursor
    /\ UNCHANGED remote_vars
    /\ UNCHANGED <<content, source_file, links, result, unmapped_links, call>>
    /\ UNCHANGED sync_vars

NextLookup == LookupWikiName

SpecLookup == InitLookup /\ [][NextLookup]_vars

\* the normalised path of the lookup: the resolved path with its .md stripped
\* and then a leading docs/ stripped
NormalisedPath ==
    LET without_md == IF EndsWith(call.resolved, ".md")
                      THEN Slice(call.resolved, 0, Len(call.resolved) - 3)
                      ELSE call.resolved
    IN  IF StartsWith(without_md, "docs/") THEN Slice(without_md, 5, Len(without_md))
        ELSE without_md

\* the entries of the page table whose key, with its .md stripped, is the
\* normalised path
MatchingEntries ==
    {i \in 1..Len(call.structure) :
        call.structure[i][1] \in {NormalisedPath, NormalisedPath \o ".md"}}

\* the page that a root filename maps to, none for any other path
RootPages ==
    {page \in {"Home", "Contributing", "Changelog"} :
        \/ NormalisedPath = "README" /\ page = "Home"
        \/ NormalisedPath = "CONTRIBUTING" /\ page = "Contributing"
        \/ NormalisedPath = "CHANGELOG" /\ page = "Changelog"}

\* C13: the lookup finds a page exactly when a key of the page table, with its
\* .md stripped, is equal to the normalised path, and then it is the page of
\* such a key, whatever the root filenames say; with no such key it finds
\* Home, Contributing or Changelog for README, CONTRIBUTING or CHANGELOG, and
\* nothing for any other path: a key that the path only ends or starts with
\* is no match.
C13_ExactLookupThenRootNames ==
    pc = "looked" =>
        /\ MatchingEntries # {} =>
               \E i \in MatchingEntries : ret = Some(call.structure[i][2])
        /\ MatchingEntries = {} => \A page \in RootPages : ret = Some(page)
        /\ MatchingEntries = {} /\ RootPages = {} => ret = None

\* C13 happens: a root filename that the page table has a key for was looked
\* up, and the page of the table was found.
C13_Witness ==
    /\ pc = "looked"
    /\ MatchingEntries # {}
    /\ RootPages # {}
    /\ \A page \in RootPages : ret # Some(page)

-----------------------------------------------------------------------------
(* The reverse parser called on the inner content of a [[...]] link.        *)

\* how many characters the inner content has, at most
MaxInnerLen == 5

\* the characters of the inner contents: the pipe, the backslash, the hash, a
\* blank and two letters
InnerChars == {"|", "\\", "#", " ", "D", "P"}

\* every text of exactly n characters of InnerChars
RECURSIVE InnersOfLen(_)
InnersOfLen(n) ==
    IF n = 0 THEN {""} ELSE {t \o c : t \in InnersOfLen(n - 1), c \in InnerChars}

InitParse ==
    /\ pc = "start"
    /\ \E n \in 0..MaxInnerLen : \E inner \in InnersOfLen(n) :
           call = [inner |-> inner, line_num |-> 1]
    /\ content = ""
    /\ source_file = ""
    /\ links = <<>>
    /\ result = ""
    /\ unmapped_links = <<>>
    /\ ret = <<>>
    /\ NoSync
    /\ cursor = 0
    /\ NoRemote

\* ret = _split_wiki_link_on_pipe(inner)
SplitWikiLinkOnPipe ==
    /\ pc = "start"
    /\ ret' = _split_wiki_link_on_pipe(call.inner)
    /\ pc' = "split"
    /\ UNCHANGED cursor
    /\ UNCHANGED remote_vars
    /\ UNCHANGED <<content, source_file, links, result, unmapped_links, call>>
    /\ UNCHANGED sync_vars

\* ret = _parse_wiki_link(inner, line_num)
ParseWikiLink ==
    /\ pc = "start"
    /\ ret' = _parse_wiki_link(call.inner, call.line_num)
    /\ pc' = "parsed"
    /\ UNCHANGED cursor
    /\ UNCHANGED remote_vars
    /\ UNCHANGED <<content, source_file, links, result, unmapped_links, call>>
    /\ UNCHANGED sync_vars

NextParse == SplitWikiLinkOnPipe \/ ParseWikiLink

SpecParse == InitParse /\ [][NextParse]_vars

\* the offsets of the pipes of the inner content, and the last of them
PipesOf(inner) == {i \in 0..(Len(inner) - 1) : CharAt(inner, i) = "|"}

LastPipeOf(inner) == CHOOSE i \in PipesOf(inner) : \A j \in PipesOf(inner) : j <= i

\* the display text and the page part of the inner content by the rule: the
\* text before the last pipe, without a backslash that stands just before
\* that pipe, and the text after it; no display text when there is no pipe
DisplayPartOf(inner) ==
    IF PipesOf(inner) = {} THEN ""
    ELSE IF LastPipeOf(inner) > 0 /\ CharAt(inner, LastPipeOf(inner) - 1) = "\\"
    THEN Slice(inner, 0, LastPipeOf(inner) - 1)
    ELSE Slice(inner, 0, LastPipeOf(inner))

PagePartOf(inner) ==
    IF PipesOf(inner) = {} THEN inner
    ELSE Slice(inner, LastPipeOf(inner) + 1, Len(inner))

\* the offsets of the hashes of a page part
HashesOf(part) == {i \in 0..(Len(part) - 1) : CharAt(part, i) = "#"}

\* the page name and the anchor of a page part by the rule: the text before
\* its first # and the text from that # on; no anchor when there is no #
PageNameOf(part) ==
    IF HashesOf(part) = {} THEN part
    ELSE Slice(part, 0, CHOOSE i \in HashesOf(part) : \A j \in HashesOf(part) : i <= j)

AnchorPartOf(part) ==
    IF HashesOf(part) = {} THEN ""
    ELSE Slice(part, CHOOSE i \in HashesOf(part) : \A j \in HashesOf(part) : i <= j,
               Len(part))

-----------------------------------------------------------------------------
(* The two range finders of link_utils.py called on their own.             *)

\* how many fragments a document of the range finders is made of, at most
MaxRangeFragments == 4

\* the fragments: fence lines of both fence characters, backtick runs of one
\* and two with and without a letter after them, and what stands between them
RangeFragments ==
    {Backtick \o Backtick \o Backtick \o "\n", "~~~\n", Backtick, Backtick \o "x",
     Backtick \o Backtick \o "x", "\n", " ", "~"}

InitRanges ==
    /\ pc = "start"
    /\ content \in DocumentsUpTo(RangeFragments, MaxRangeFragments)
    /\ source_file = ""
    /\ links = <<>>
    /\ result = ""
    /\ unmapped_links = <<>>
    /\ call = <<>>
    /\ ret = <<>>
    /\ NoSync
    /\ cursor = 0
    /\ NoRemote

\* ret = find_code_fence_ranges(content)
FindCodeFenceRanges ==
    /\ pc = "start"
    /\ ret' = find_code_fence_ranges(content)
    /\ pc' = "fenced"
    /\ UNCHANGED cursor
    /\ UNCHANGED remote_vars
    /\ UNCHANGED <<content, source_file, links, result, unmapped_links, call>>
    /\ UNCHANGED sync_vars

\* ret = find_inline_code_ranges(content)
FindInlineCodeRanges ==
    /\ pc = "start"
    /\ ret' = find_inline_code_ranges(content)
    /\ pc' = "spanned"
    /\ UNCHANGED cursor
    /\ UNCHANGED remote_vars
    /\ UNCHANGED <<content, source_file, links, result, unmapped_links, call>>
    /\ UNCHANGED sync_vars

NextRanges == FindCodeFenceRanges \/ FindInlineCodeRanges

SpecRanges == InitRanges /\ [][NextRanges]_vars

\* the offsets at which the lines of content start, and the line that starts
\* at such an offset, its line end included
LineStarts ==
    {o \in 0..(Len(content) - 1) : o = 0 \/ CharAt(content, o - 1) = "\n"}

LineFrom(o) ==
    Slice(content, o,
          IF \E n \in o..(Len(content) - 1) : CharAt(content, n) = "\n"
          THEN 1 + CHOOSE n \in o..(Len(content) - 1) :
                       /\ CharAt(content, n) = "\n"
                       /\ \A m \in o..(n - 1) : CharAt(content, m) # "\n"
          ELSE Len(content))

\* the line opens a fence: optional whitespace, then three or more backticks
\* or three or more tildes
OpensFence(o) ==
    \/ StartsWith(Strip(LineFrom(o)), Backtick \o Backtick \o Backtick)
    \/ StartsWith(Strip(LineFrom(o)), "~~~")

\* the line closes the fence that the line at offset s opened: stripped, it
\* starts with the fence character of that line three times
ClosesFence(o, s) ==
    StartsWithAt(Strip(LineFrom(o)),
                 CharAt(Strip(LineFrom(s)), 0) \o CharAt(Strip(LineFrom(s)), 0)
                     \o CharAt(Strip(LineFrom(s)), 0),
                 0)

\* where the fence that the line at offset s opened ends: with the first later
\* line that closes it, or with the document
FenceEnd(s) ==
    IF \E o \in LineStarts : o > s /\ ClosesFence(o, s)
    THEN LET o == CHOOSE o \in LineStarts :
                      /\ o > s /\ ClosesFence(o, s)
                      /\ \A q \in LineStarts : q > s /\ q < o => ~ClosesFence(q, s)
         IN  o + Len(LineFrom(o))
    ELSE Len(content)

\* the first line at or after offset from that opens a fence starts at s
FirstOpenerFrom(from, s) ==
    /\ s \in LineStarts /\ s >= from /\ OpensFence(s)
    /\ \A q \in LineStarts : q >= from /\ q < s => ~OpensFence(q)

\* C19: find_code_fence_ranges goes over the lines in two states.  Outside a
\* fence, the first line of optional whitespace and three or more backticks
\* or tildes opens one; inside, only a line that, stripped, starts with the
\* same character three times closes it, and the range runs from the start of
\* the opening line to the end of the closing line; a fence still open at the
\* end of the input gives a range that ends at len(text).
C19_FenceRangesByLineMachine ==
    pc = "fenced" =>
        /\ \A k \in 1..Len(ret) :
               /\ FirstOpenerFrom(IF k = 1 THEN 0 ELSE ret[k - 1][2], ret[k][1])
               /\ ret[k][2] = FenceEnd(ret[k][1])
        /\ \A q \in LineStarts :
               q >= (IF ret = <<>> THEN 0 ELSE ret[Len(ret)][2]) => ~OpensFence(q)

\* C19 happens: a fence of backticks with a line of tildes in it was closed by
\* a line of backticks, and the fence after it was still open at the end.
C19_Witness ==
    /\ pc = "fenced"
    /\ Len(ret) = 2
    /\ CharAt(Strip(LineFrom(ret[1][1])), 0) = Backtick
    /\ \E o \in LineStarts :
           /\ ret[1][1] < o /\ o < ret[1][2]
           /\ StartsWith(LineFrom(o), "~~~")
           /\ o + Len(LineFrom(o)) < ret[1][2]
    /\ \E o \in LineStarts :
           /\ o + Len(LineFrom(o)) = ret[1][2]
           /\ ClosesFence(o, ret[1][1])
    /\ ret[2][2] = Len(content)
    /\ \A o \in LineStarts : o > ret[2][1] => ~ClosesFence(o, ret[2][1])

\* a maximal run of n backticks starts at offset i of content
MaximalRun(i, n) ==
    /\ i + n <= Len(content)
    /\ \A j \in i..(i + n - 1) : CharAt(content, j) = Backtick
    /\ i = 0 \/ CharAt(content, i - 1) # Backtick
    /\ i + n = Len(content) \/ CharAt(content, i + n) # Backtick

\* C20: every range of find_inline_code_ranges starts at a maximal run of one
\* or of two backticks and ends just after the next maximal run of the same
\* length; so no run of three or more opens a range and a run that no run of
\* its length follows gives none; the ranges are in ascending order and no
\* two of them overlap.
C20_InlineCodeRanges ==
    pc = "spanned" =>
        /\ \A k \in 1..Len(ret) :
               \E n \in {1, 2} :
                   /\ MaximalRun(ret[k][1], n)
                   /\ MaximalRun(ret[k][2] - n, n)
                   /\ ret[k][2] - n >= ret[k][1] + n
                   /\ \A q \in (ret[k][1] + n)..(ret[k][2] - n - 1) : ~MaximalRun(q, n)
        /\ \A k \in 1..(Len(ret) - 1) : ret[k][2] <= ret[k + 1][1]

\* C20 happens: a range with a backtick run of another length inside it was
\* returned, after a run of three backticks that opened none.
C20_Witness ==
    /\ pc = "spanned"
    /\ \E k \in 1..Len(ret) : \E n, m \in {1, 2} :
           /\ MaximalRun(ret[k][1], n)
           /\ n # m
           /\ \E q \in (ret[k][1] + n)..(ret[k][2] - n - 1) : MaximalRun(q, m)
           /\ \E q \in 0..(ret[k][1] - 1) : MaximalRun(q, 3)
           /\ \A j \in 1..Len(ret) : ret[j][1] >= 3

-----------------------------------------------------------------------------
(* sync-wiki.py: a run of main                                             *)

\* CRITICAL_PAGES of link_utils.py
CRITICAL_PAGES == <<"Best-Practices", "Development-Tooling", "Home", "_Sidebar">>

\* root_mapping of main, in the order of the dict
root_mapping == <<
    <<"CONTRIBUTING.md", "Contributing">>,
    <<"CHANGELOG.md", "Changelog">>
>>

\* DOCS_DIR / src_rel
DocsPath(src_rel) == "docs/" \o src_rel

\* every path a run of main reads
SourcePaths ==
    {DocsPath(WIKI_STRUCTURE[k][1]) : k \in 1..Len(WIKI_STRUCTURE)}
        \cup {root_mapping[k][1] : k \in 1..Len(root_mapping)}
        \cup {"README.md"}

\* src_path.exists()
exists(path) == files[path] # "missing"

\* read_file_safe(path): <<the text>>, or <<>> for None when read_text raises
\* OSError or UnicodeDecodeError
read_file_safe(path) == IF files[path] = "ok" THEN <<content>> ELSE <<>>

\* write_file_safe(WIKI_DIR / (page + ".md"), txt): whether write_text went
\* through, and the directory after it
write_file_safe(wiki, page, txt) ==
    [ok |-> page \notin unwritable,
     wiki_dir |-> IF page \in unwritable THEN wiki
                  ELSE {f \in wiki : f[1] # page} \cup {<<page, txt>>}]

\* str(src_path.relative_to(DOCS_DIR)), or str(src_path) on ValueError
relative_to_docs(src_path) ==
    IF StartsWith(src_path, "docs/") THEN Slice(src_path, 5, Len(src_path))
    ELSE src_path

\* process_file(src_path, wiki_name): what it returns, the directory and the
\* unmapped links after it
process_file(src_path, wiki_name, wiki, unmapped) ==
    LET Written(done) ==
            [ok |-> write_file_safe(wiki, wiki_name, done.result).ok,
             wiki_dir |-> write_file_safe(wiki, wiki_name, done.result).wiki_dir,
             unmapped_links |-> done.unmapped_links]
        Read(got) ==
            IF got = <<>>
            THEN [ok |-> FALSE, wiki_dir |-> wiki, unmapped_links |-> unmapped]
            ELSE Written(convert_links(got[1],
                                       normalize_path(relative_to_docs(src_path)),
                                       unmapped))
    IN  Read(read_file_safe(src_path))

\* generate_sidebar(): the fixed navigation page
generate_sidebar ==
    "# Unity Tips & Tools\n"
    \o "\n"
    \o "**[[Home]]**\n"
    \o "\n"
    \o "## Getting Started\n"
    \o "- [[Overview|Home]]\n"
    \o "- [[Contributing]]\n"
    \o "- [[Changelog]]\n"
    \o "\n"
    \o "## Best Practices\n"
    \o "- [[Overview|Best-Practices]]\n"
    \o "- [[Lifecycle-Methods]]\n"
    \o "- [[Null-Checks]]\n"
    \o "- [[Component-Access]]\n"
    \o "- [[Serialization]]\n"
    \o "- [[Coroutines]]\n"
    \o "- [[Physics]]\n"
    \o "- [[Performance-and-Memory]]\n"
    \o "- [[ScriptableObjects]]\n"
    \o "- [[Object-Pooling]]\n"
    \o "- [[Event-Systems]]\n"
    \o "- [[Addressables]]\n"
    \o "- [[Scene-Loading]]\n"
    \o "- [[Jobs-and-Burst]]\n"
    \o "- [[Async-Await]]\n"
    \o "- [[Profiling]]\n"
    \o "- [[Testing-and-CI]]\n"
    \o "- [[Input-Architecture]]\n"
    \o "- [[Save-Load]]\n"
    \o "\n"
    \o "## Animation & Polish\n"
    \o "- [[Animancer]]\n"
    \o "- [[PrimeTween]]\n"
    \o "- [[Feel]]\n"
    \o "\n"
    \o "## Editor & Workflow\n"
    \o "- [[Hot-Reload]]\n"
    \o "- [[Odin-Inspector]]\n"
    \o "\n"
    \o "## Architecture\n"
    \o "- [[Assembly-Definitions]]\n"
    \o "- [[Input-System]]\n"
    \o "- [[DxMessaging]]\n"
    \o "\n"
    \o "## Development Tooling\n"
    \o "- [[Overview|Development-Tooling]]\n"
    \o "- [[CSharpier]]\n"
    \o "- [[EditorConfig]]\n"
    \o "- [[NuGet-for-Unity]]\n"
    \o "- [[Heap-Allocation-Viewer]]\n"
    \o "\n"
    \o "## Debugging & Performance\n"
    \o "- [[Graphy]]\n"
    \o "- [[Better-Build-Info]]\n"
    \o "- [[Asset-Usage-Finder]]\n"
    \o "\n"
    \o "## Utilities\n"
    \o "- [[Unity-Helpers]]\n"

\* the page generate_home returns when README.md cannot be read
BuiltInHome ==
    "# Unity Tips & Tools\n"
    \o "\n"
    \o "> Battle-tested practices and tools to build better Unity games faster.\n"
    \o "\n"
    \o "Welcome to the Unity Tips & Tools wiki!\n"
    \o "\n"
    \o "## Quick Navigation\n"
    \o "\n"
    \o "- [[Best Practices|Best-Practices]] - Prevent 80% of Unity bugs\n"
    \o "- [[Development Tooling|Development-Tooling]] - Auto-format code, catch allocations\n"
    \o "- [[Animancer]] - Code-driven animation\n"
    \o "- [[Graphy]] - Monitor FPS/memory\n"
    \o "\n"
    \o "## Documentation\n"
    \o "\n"
    \o "This wiki is automatically synced from the [main repository](https://github.com/wallstop/unity-tips).\n"
    \o "\n"
    \o "For the best reading experience with search and navigation, visit the\n"
    \o "[GitHub Pages documentation site](https://wallstop.github.io/unity-tips).\n"

\* generate_home(): README.md with its links converted, or the built-in page;
\* and the unmapped links after it
generate_home(unmapped) ==
    LET Read(got) ==
            IF got # <<>>
            THEN [page |-> convert_links(got[1], "README.md", unmapped).result,
                  unmapped_links |->
                      convert_links(got[1], "README.md", unmapped).unmapped_links]
            ELSE [page |-> BuiltInHome, unmapped_links |-> unmapped]
    IN  Read(read_file_safe("README.md"))

\* validate_wiki_structure(): the entries whose source file does not exist
validate_wiki_structure ==
    SelectSeq(WIKI_STRUCTURE, LAMBDA entry : ~exists(DocsPath(entry[1])))

\* "if not ...: errors += 1" without the count
errors_after_ignored(count, ok) == count

\* "if not ...: errors += 1"
errors_after(count, ok) == IF ok THEN count ELSE count + 1

\* how many source files and wiki pages fail in a run, at most
MaxFaults == 2

\* what can be wrong with a source file: it is missing, or its read raises
SourceFaults == {
    <<"docs/best-practices/README.md", "missing">>,
    <<"docs/best-practices/README.md", "unreadable">>,
    <<"docs/best-practices/05-coroutines.md", "missing">>,
    <<"docs/best-practices/05-coroutines.md", "unreadable">>,
    <<"docs/unity-helpers/README.md", "unreadable">>,
    <<"CONTRIBUTING.md", "missing">>,
    <<"CONTRIBUTING.md", "unreadable">>,
    <<"CHANGELOG.md", "missing">>,
    <<"README.md", "unreadable">>}

\* the pages whose write can fail
WriteFaults == {"Best-Practices", "Coroutines", "Changelog", "Home", "_Sidebar"}

\* what the readable files hold: no link, or a link that is mapped from
\* best-practices/ and unmapped from everywhere else, before a link that
\* leaves the root
SyncDocuments ==
    {"No links here.\n", "[C](05-coroutines.md)[x](../../s.md)"}

\* a record that convert_links appended for an earlier file
OldRecord == <<"old.md", "gone.md", "no mapping found">>

\* what WIKI_DIR holds before the run, .git left out
OldWikis == {{}, {<<"Home", "old">>, <<"Old-Page", "old">>}}

InitSync ==
    /\ pc = "start"
    /\ content \in SyncDocuments
    /\ source_file = ""
    /\ links = <<>>
    /\ result = ""
    /\ unmapped_links \in {<<>>, <<OldRecord>>}
    /\ call = <<>>
    /\ ret = <<>>
    /\ errors = 0
    /\ wiki_dir \in OldWikis
    /\ \E faulty \in SUBSET SourceFaults :
           /\ \A f, g \in faulty : f[1] = g[1] => f = g
           /\ unwritable \in {w \in SUBSET WriteFaults :
                                  Cardinality(w) + Cardinality(faulty) <= MaxFaults}
           /\ files = [path \in SourcePaths |->
                          IF \E f \in faulty : f[1] = path
                          THEN (CHOOSE f \in faulty : f[1] = path)[2]
                          ELSE "ok"]
    /\ remaining = <<>>
    /\ cursor = 0
    /\ NoRemote

\* main without line 466: the accumulator is not cleared
ValidateWikiStructure_keeping ==
    /\ pc = "start"
    /\ errors' = errors + Len(validate_wiki_structure)
    /\ pc' = "validated"
    /\ UNCHANGED cursor
    /\ UNCHANGED remote_vars
    /\ UNCHANGED <<content, source_file, links, result, call, ret, unmapped_links,
                   wiki_dir, files, unwritable, remaining>>

\* main, lines 463-477: the counter starts with the missing source files
ValidateWikiStructure ==
    /\ pc = "start"
    /\ unmapped_links' = <<>>
    /\ errors' = errors + Len(validate_wiki_structure)
    /\ pc' = "validated"
    /\ UNCHANGED cursor
    /\ UNCHANGED remote_vars
    /\ UNCHANGED <<content, source_file, links, result, call, ret,
                   wiki_dir, files, unwritable, remaining>>

\* main, lines 479-491: the old pages are removed; one that cannot be removed
\* stays, with a warning
CleanWikiDir ==
    /\ pc = "validated"
    /\ wiki_dir' \in SUBSET wiki_dir
    /\ remaining' = WIKI_STRUCTURE
    /\ pc' = "cleaned"
    /\ UNCHANGED cursor
    /\ UNCHANGED remote_vars
    /\ UNCHANGED <<content, source_file, links, result, unmapped_links, call, ret,
                   errors, files, unwritable>>

\* one round of a loop of main over (source path, wiki name): process_file
\* on a file that exists, nothing but a message on one that does not
ProcessNext(src_path, wiki_name) ==
    IF exists(src_path)
    THEN \E done \in {process_file(src_path, wiki_name, wiki_dir, unmapped_links)} :
             /\ errors' = errors_after(errors, done.ok)
             /\ wiki_dir' = done.wiki_dir
             /\ unmapped_links' = done.unmapped_links
    ELSE UNCHANGED <<errors, wiki_dir, unmapped_links>>

\* main, lines 493-501: one round of the loop over WIKI_STRUCTURE
ProcessMappedFile ==
    /\ pc = "cleaned"
    /\ remaining # <<>>
    /\ ProcessNext(DocsPath(Head(remaining)[1]), Head(remaining)[2])
    /\ remaining' = IF Tail(remaining) = <<>> THEN root_mapping ELSE Tail(remaining)
    /\ pc' = IF Tail(remaining) = <<>> THEN "mapped" ELSE "cleaned"
    /\ UNCHANGED cursor
    /\ UNCHANGED remote_vars
    /\ UNCHANGED <<content, source_file, links, result, call, ret, files, unwritable>>

\* main, lines 503-513: one round of the loop over root_mapping
ProcessRootFile ==
    /\ pc = "mapped"
    /\ remaining # <<>>
    /\ ProcessNext(Head(remaining)[1], Head(remaining)[2])
    /\ remaining' = Tail(remaining)
    /\ pc' = IF Tail(remaining) = <<>> THEN "rooted" ELSE "mapped"
    /\ UNCHANGED cursor
    /\ UNCHANGED remote_vars
    /\ UNCHANGED <<content, source_file, links, result, call, ret, files, unwritable>>

\* main, lines 515-519
GenerateHome ==
    /\ pc = "rooted"
    /\ \E home \in {generate_home(unmapped_links)} :
           /\ unmapped_links' = home.unmapped_links
           /\ wiki_dir' = write_file_safe(wiki_dir, "Home", home.page).wiki_dir
           /\ errors' = errors_after(errors, write_file_safe(wiki_dir, "Home", home.page).ok)
    /\ pc' = "home"
    /\ UNCHANGED cursor
    /\ UNCHANGED remote_vars
    /\ UNCHANGED <<content, source_file, links, result, call, ret,
                   files, unwritable, remaining>>

\* main, lines 521-525
GenerateSidebar ==
    /\ pc = "home"
    /\ wiki_dir' = write_file_safe(wiki_dir, "_Sidebar", generate_sidebar).wiki_dir
    /\ errors' = errors_after(errors, write_file_safe(wiki_dir, "_Sidebar", generate_sidebar).ok)
    /\ pc' = "sidebar"
    /\ UNCHANGED cursor
    /\ UNCHANGED remote_vars
    /\ UNCHANGED <<content, source_file, links, result, unmapped_links, call, ret,
                   files, unwritable, remaining>>

\* main, lines 527-552: the unmapped links are only printed; every critical
\* page that is not there counts; the exit status
VerifyCriticalPages ==
    /\ pc = "sidebar"
    /\ errors' = errors + Cardinality({k \in 1..Len(CRITICAL_PAGES) :
                                ~\E f \in wiki_dir : f[1] = CRITICAL_PAGES[k]})
    /\ ret' = IF errors' > 0 THEN 1 ELSE 0
    /\ pc' = "done"
    /\ UNCHANGED cursor
    /\ UNCHANGED remote_vars
    /\ UNCHANGED <<content, source_file, links, result, unmapped_links, call,
                   wiki_dir, files, unwritable, remaining>>

NextSync ==
    \/ ValidateWikiStructure
    \/ CleanWikiDir
    \/ ProcessMappedFile
    \/ ProcessRootFile
    \/ GenerateHome
    \/ GenerateSidebar
    \/ VerifyCriticalPages

SpecSync == InitSync /\ [][NextSync]_vars

\* the (source path, wiki name) pairs of both loops of main
SyncedFiles ==
    {<<DocsPath(WIKI_STRUCTURE[k][1]), WIKI_STRUCTURE[k][2]>> : k \in 1..Len(WIKI_STRUCTURE)}
        \cup {root_mapping[k] : k \in 1..Len(root_mapping)}

\* a source file of WIKI_STRUCTURE is missing
MissingMappedSource ==
    \E k \in 1..Len(WIKI_STRUCTURE) : files[DocsPath(WIKI_STRUCTURE[k][1])] = "missing"

\* a mapped file or a root file that is there could not be read, or the page
\* made of it could not be written; or Home or the sidebar could not be written
FailedReadOrWrite ==
    \/ \E f \in SyncedFiles :
           \/ files[f[1]] = "unreadable"
           \/ files[f[1]] = "ok" /\ f[2] \in unwritable
    \/ "Home" \in unwritable
    \/ "_Sidebar" \in unwritable

\* README.md could not be read
FailedReadOfReadme == files["README.md"] # "ok"

\* a critical page is not in WIKI_DIR
CriticalPageNotGenerated ==
    \E k \in 1..Len(CRITICAL_PAGES) : ~\E f \in wiki_dir : f[1] = CRITICAL_PAGES[k]

\* whatever failed, every file that can be read and written was processed, and
\* so were Home and the sidebar
AllStillProcessed ==
    /\ \A f \in SyncedFiles :
           files[f[1]] = "ok" /\ f[2] \notin unwritable =>
               <<f[2], convert_links(content, relative_to_docs(f[1]), <<>>).result>>
                   \in wiki_dir
    /\ "Home" \notin unwritable =>
           <<"Home", IF files["README.md"] = "ok"
                     THEN convert_links(content, "README.md", <<>>).result
                     ELSE BuiltInHome>> \in wiki_dir
    /\ "_Sidebar" \notin unwritable => <<"_Sidebar", generate_sidebar>> \in wiki_dir

\* C15 as stated: a file that cannot be read or written does not stop the run
\* of main, and the run returns 1 if and only if a mapped source is missing,
\* a read or a write of any file failed, or a critical page was not
\* generated.
C15_AsStated ==
    pc = "done" =>
        /\ AllStillProcessed
        /\ ret = 1 <=> \/ MissingMappedSource
                       \/ FailedReadOrWrite
                       \/ FailedReadOfReadme
                       \/ CriticalPageNotGenerated
        /\ ret \in {0, 1}

\* C15: a file that cannot be read or written does not stop the run of main:
\* every mapped file, root file, Home and the sidebar are still processed;
\* the run returns 1 if and only if an error was counted, that is a mapped
\* source is missing, a read or a write of a mapped file or root file or a
\* write of Home or of the sidebar failed, or a critical page was not
\* generated, and 0 otherwise; a failed read of README.md for the Home page
\* is not counted, and unmapped links alone never make the status non-zero.
C15_FailuresCountedRunGoesOn ==
    pc = "done" =>
        /\ AllStillProcessed
        /\ ret = 1 <=> errors > 0
        /\ errors > 0 <=> \/ MissingMappedSource
                          \/ FailedReadOrWrite
                          \/ CriticalPageNotGenerated
        /\ ret \in {0, 1}

\* C15 happens: the run is over with status 1, a file that is neither a
\* critical one nor the last could not be read, a page could not be written,
\* the pages after them are there, and links were left unmapped.
C15_Witness ==
    /\ pc = "done"
    /\ ret = 1
    /\ files["docs/best-practices/05-coroutines.md"] = "unreadable"
    /\ "Changelog" \in unwritable
    /\ \E f \in wiki_dir : f[1] = "Unity-Helpers"
    /\ \E f \in wiki_dir : f[1] = "_Sidebar"
    /\ ~CriticalPageNotGenerated
    /\ unmapped_links # <<>>

-----------------------------------------------------------------------------
(* build_line_offsets and index_to_line_column called on their own, next   *)
(* to extract_links on the same text.                                      *)

\* how many fragments a text of several lines is made of, at most
MaxLineFragments == 4

\* the fragments: line ends alone and in a row, text, a link
LineFragments == {"\n", "\n\n", "ab", "c", "[x](u.md)"}

InitLines ==
    /\ pc = "start"
    /\ content \in DocumentsUpTo(LineFragments, MaxLineFragments)
    /\ source_file = ""
    /\ links = <<>>
    /\ result = ""
    /\ unmapped_links = <<>>
    /\ call = <<>>
    /\ ret = <<>>
    /\ NoSync
    /\ cursor = 0
    /\ NoRemote

\* ret = index_to_line_column(build_line_offsets(content), index) for an
\* offset of content
IndexToLineColumn ==
    /\ pc = "start"
    /\ \E index \in 0..(Len(content) - 1) :
           /\ call' = [offsets |-> build_line_offsets(content), index |-> index]
           /\ ret' = index_to_line_column(build_line_offsets(content), index)
    /\ pc' = "located"
    /\ UNCHANGED cursor
    /\ UNCHANGED remote_vars
    /\ UNCHANGED <<content, source_file, links, result, unmapped_links>>
    /\ UNCHANGED sync_vars

NextLines == IndexToLineColumn \/ ExtractLinks

SpecLines == InitLines /\ [][NextLines]_vars

\* the number of line ends in content[0:i]
NewlinesBefore(i) == Cardinality({j \in 0..(i - 1) : CharAt(content, j) = "\n"})

\* the greatest offset <= i at which a line of content starts
LineStartAtOrBefore(i) == Last({s \in LineStarts : s <= i})

\* C21: for every offset i of a text with \n line ends,
\* index_to_line_column(build_line_offsets(text), i) is the line
\* 1 + (number of \n in text[0:i]) and the column i - s + 1, s the greatest
\* line start <= i, both counted from 1; and the line of every occurrence
\* extract_links reports is the line of its start.
C21_LineAndColumnOfOffset ==
    /\ pc = "located" =>
           /\ ret[1] = 1 + NewlinesBefore(call.index)
           /\ ret[2] = call.index - LineStartAtOrBefore(call.index) + 1
           /\ ret[1] >= 1 /\ ret[2] >= 1
    /\ pc = "scanned" =>
           \A k \in 1..Len(links) :
               /\ links[k].line = 1 + NewlinesBefore(links[k].start)
               /\ links[k].column = links[k].start - LineStartAtOrBefore(links[k].start) + 1

\* C21 happens: the offset asked for is that of a line end which is a line of
\* its own, the third line or later.
C21_Witness ==
    /\ pc = "located"
    /\ CharAt(content, call.index) = "\n"
    /\ call.index \in LineStarts
    /\ ret[1] >= 3
    /\ ret[2] = 1

-----------------------------------------------------------------------------
(* find_inline_links round by round: cursor is its idx, links what it has  *)
(* yielded so far.                                                         *)

\* how many fragments a text of brackets is made of, at most
MaxInlineFragments == 3

\* the fragments: brackets with and without destination, alone, nested when
\* put together, an image mark, an empty destination
InlineFragments ==
    {"[a]", "[b](u)", "(c)", "[e]()", "[n [b](u)]", "[", "]", "!", " "}

InitInline ==
    /\ pc = "start"
    /\ content \in DocumentsUpTo(InlineFragments, MaxInlineFragments)
    /\ source_file = ""
    /\ links = <<>>
    /\ result = ""
    /\ unmapped_links = <<>>
    /\ call = <<>>
    /\ ret = <<>>
    /\ NoSync
    /\ cursor = 0
    /\ NoRemote

\* the while loop is in a round, at a [ that is no image
AtBracket ==
    /\ pc = "start"
    /\ cursor < Len(content)
    /\ CharAt(content, cursor) = "["
    /\ ~(cursor > 0 /\ CharAt(content, cursor - 1) = "!")

\* close, j and dest_end of the round at cursor
CloseAt == find_closing(content, cursor, "[", "]")

ParenAt == SkipSpace(content, CloseAt + 1)

DestEndAt == find_closing(content, ParenAt, "(", ")")

\* lines 156-162: what follows the ] is no (, or a ( that no ) closes
NoDestinationAt ==
    IF ParenAt >= Len(content) THEN TRUE
    ELSE IF CharAt(content, ParenAt) # "(" THEN TRUE
    ELSE DestEndAt = -1

\* lines 141-143: a character that is not [
SkipCharacter ==
    /\ pc = "start"
    /\ cursor < Len(content)
    /\ CharAt(content, cursor) # "["
    /\ cursor' = cursor + 1
    /\ UNCHANGED <<pc, content, source_file, links, result, unmapped_links, call, ret>>
    /\ UNCHANGED sync_vars
    /\ UNCHANGED remote_vars

\* lines 144-146: the [ of an image
SkipImage ==
    /\ pc = "start"
    /\ cursor < Len(content)
    /\ CharAt(content, cursor) = "["
    /\ cursor > 0 /\ CharAt(content, cursor - 1) = "!"
    /\ cursor' = cursor + 1
    /\ UNCHANGED <<pc, content, source_file, links, result, unmapped_links, call, ret>>
    /\ UNCHANGED sync_vars
    /\ UNCHANGED remote_vars

\* lines 147-150: a [ that no ] closes
SkipUnclosed ==
    /\ AtBracket
    /\ CloseAt = -1
    /\ cursor' = cursor + 1
    /\ UNCHANGED <<pc, content, source_file, links, result, unmapped_links, call, ret>>
    /\ UNCHANGED sync_vars
    /\ UNCHANGED remote_vars

\* lines 156-162 with the scan going on one character further
SkipNoDestination_next_char ==
    /\ AtBracket
    /\ CloseAt # -1
    /\ NoDestinationAt
    /\ cursor' = cursor + 1
    /\ UNCHANGED <<pc, content, source_file, links, result, unmapped_links, call, ret>>
    /\ UNCHANGED sync_vars
    /\ UNCHANGED remote_vars

\* lines 156-162: no ( after the ], or a ( that no ) closes
SkipNoDestination ==
    /\ AtBracket
    /\ CloseAt # -1
    /\ NoDestinationAt
    /\ cursor' = CloseAt + 1
    /\ UNCHANGED <<pc, content, source_file, links, result, unmapped_links, call, ret>>
    /\ UNCHANGED sync_vars
    /\ UNCHANGED remote_vars

\* the round has a destination: [ ... ] ( ... )
HasDestination ==
    /\ AtBracket
    /\ CloseAt # -1
    /\ ParenAt < Len(content)
    /\ CharAt(content, ParenAt) = "("
    /\ DestEndAt # -1

\* lines 163-167: a destination without href
SkipEmptyHref ==
    /\ HasDestination
    /\ extract_href(Slice(content, ParenAt + 1, DestEndAt)) = ""
    /\ cursor' = DestEndAt + 1
    /\ UNCHANGED <<pc, content, source_file, links, result, unmapped_links, call, ret>>
    /\ UNCHANGED sync_vars
    /\ UNCHANGED remote_vars

\* lines 168-179: the link is yielded
YieldInlineLink ==
    /\ HasDestination
    /\ extract_href(Slice(content, ParenAt + 1, DestEndAt)) # ""
    /\ links' = Append(links,
                       [start |-> cursor,
                        end |-> DestEndAt + 1,
                        text |-> Slice(content, cursor + 1, CloseAt),
                        href |-> extract_href(Slice(content, ParenAt + 1, DestEndAt)),
                        separator |-> Slice(content, CloseAt + 1, ParenAt),
                        dest_content |-> Slice(content, ParenAt + 1, DestEndAt),
                        segment |-> Slice(content, cursor, DestEndAt + 1)])
    /\ cursor' = DestEndAt + 1
    /\ UNCHANGED <<pc, content, source_file, result, unmapped_links, call, ret>>
    /\ UNCHANGED sync_vars
    /\ UNCHANGED remote_vars

\* line 140: the loop is over
InlineLinksExhausted ==
    /\ pc = "start"
    /\ cursor >= Len(content)
    /\ pc' = "found"
    /\ UNCHANGED <<cursor, content, source_file, links, result, unmapped_links, call, ret>>
    /\ UNCHANGED sync_vars
    /\ UNCHANGED remote_vars

NextInline ==
    \/ SkipCharacter
    \/ SkipImage
    \/ SkipUnclosed
    \/ SkipNoDestination
    \/ SkipEmptyHref
    \/ YieldInlineLink
    \/ InlineLinksExhausted

SpecInline == InitInline /\ [][NextInline]_vars

\* the rounds yield what find_inline_links returns as a whole
InlineRoundsAgree == pc = "found" => links = find_inline_links(content)

\* the [ at offset i of content has a matching ], and what follows that ],
\* blanks skipped, is no ( with a matching )
ClosedWithoutDestination(i) ==
    /\ i < Len(content)
    /\ CharAt(content, i) = "["
    /\ MatchingCloser(content, i, "[", "]") # -1
    /\ LET paren == SkipSpace(content, MatchingCloser(content, i, "[", "]") + 1)
       IN  \/ paren >= Len(content)
           \/ CharAt(content, paren) # "("
           \/ MatchingCloser(content, paren, "(", ")") = -1

\* a round that yields, yields one occurrence that starts where the scan
\* stands, and the scan never goes back: what it has passed it never yields
YieldsAtCursorOnly ==
    /\ cursor' >= cursor
    /\ links' # links =>
           /\ links' = Append(links, links'[Len(links')])
           /\ links'[Len(links')].start = cursor

\* C22 as stated: when the scan of find_inline_links is at a [ at index i that
\* has a matching ] at index c, and c is not followed, blanks skipped, by a (
\* with a matching ), the round yields nothing and the scan resumes at c + 1;
\* as the scan never goes back, no later ( is ever taken for its destination.
C22_AsStated ==
    [][/\ (pc = "start" /\ ClosedWithoutDestination(cursor)) =>
              /\ cursor' = MatchingCloser(content, cursor, "[", "]") + 1
              /\ links' = links
       /\ YieldsAtCursorOnly]_vars

\* C22: when the scan of find_inline_links is at a [ at index i that is not
\* the [ of an image (no ! before it) and has a matching ] at index c, and c
\* is not followed, blanks skipped, by a ( with a matching ), the round yields
\* nothing and the scan resumes at c + 1; as the scan never goes back, no
\* later ( is ever taken for its destination.
C22_ResumesAfterCloser ==
    [][/\ (/\ pc = "start"
           /\ ClosedWithoutDestination(cursor)
           /\ ~(cursor > 0 /\ CharAt(content, cursor - 1) = "!")) =>
              /\ cursor' = MatchingCloser(content, cursor, "[", "]") + 1
              /\ links' = links
       /\ YieldsAtCursorOnly]_vars

\* C22 happens: the text starts with a [ that is closed without destination
\* and has a whole link inside; the scan is over, a ( came after the ], and the
\* only occurrence yielded starts after that ].
C22_Witness ==
    /\ pc = "found"
    /\ ClosedWithoutDestination(0)
    /\ \E j \in 1..(MatchingCloser(content, 0, "[", "]") - 1) :
           /\ CharAt(content, j) = "["
           /\ ~ClosedWithoutDestination(j)
           /\ MatchingCloser(content, j, "[", "]") # -1
    /\ \E j \in (MatchingCloser(content, 0, "[", "]") + 1)..(Len(content) - 1) :
           CharAt(content, j) = "("
    /\ Len(links) = 1
    /\ links[1].start > MatchingCloser(content, 0, "[", "]")

-----------------------------------------------------------------------------
(* What extract_links reports of an occurrence, by kind.                   *)

\* the characters the bare-URL pass strips from the end of a match
TrailingPunctuation == {".", ",", ";", ":", "!", "?"}

\* C23: every occurrence of kind bare has an href that does not end with one
\* of . , ; : ! ?, the punctuation stripped from it lies in the text right
\* after its span, and its segment is text[start:end] and is its href; every
\* occurrence of every kind has segment = text[start:end].
C23_BareWithoutTrailingPunctuation ==
    pc = "scanned" =>
        \A k \in 1..Len(links) :
            /\ links[k].segment = Slice(content, links[k].start, links[k].end)
            /\ links[k].kind = "bare" =>
                   /\ links[k].href = links[k].segment
                   /\ links[k].href # ""
                   /\ CharAt(links[k].href, Len(links[k].href) - 1) \notin TrailingPunctuation
                   /\ links[k].separator =
                          Slice(content, links[k].end, links[k].end + Len(links[k].separator))
                   /\ \A j \in 0..(Len(links[k].separator) - 1) :
                          CharAt(links[k].separator, j) \in TrailingPunctuation

\* C23 happens: a bare URL lost two punctuation marks, which stand in the text
\* right after its span, and an inline link was reported next to it.
C23_Witness ==
    /\ pc = "scanned"
    /\ \E k \in 1..Len(links) :
           /\ links[k].kind = "bare"
           /\ Len(links[k].separator) = 2
           /\ CharAt(content, links[k].end) \in TrailingPunctuation
    /\ \E k \in 1..Len(links) : links[k].kind = "inline"

\* C24 as stated: every occurrence of kind autolink or bare that extract_links
\* returns has the empty string as its text; only inline occurrences have a
\* text that is not empty.
C24_AsStated ==
    pc = "scanned" =>
        \A k \in 1..Len(links) :
            links[k].kind \in {"autolink", "bare"} => links[k].text = ""

\* C24: every occurrence of kind autolink or bare that extract_links returns
\* has its href as its text, which is never empty; an inline occurrence has
\* the text between its brackets.
C24_TextOfUrlIsHref ==
    pc = "scanned" =>
        \A k \in 1..Len(links) :
            /\ links[k].kind \in {"autolink", "bare"} =>
                   /\ links[k].text = links[k].href
                   /\ links[k].text # ""
            /\ links[k].kind = "inline" =>
                   links[k].text =
                       Slice(content, links[k].start + 1,
                             MatchingCloser(content, links[k].start, "[", "]"))

\* C24 happens: a bare URL was reported before an inline link, each with its
\* text.
C24_Witness ==
    /\ pc = "scanned"
    /\ Len(links) >= 2
    /\ links[1].kind = "bare"
    /\ links[1].text = "http://a.b"
    /\ links[2].kind = "inline"
    /\ links[2].text = "x"

-----------------------------------------------------------------------------
(* convert_links on documents of links it is to leave alone, with an       *)
(* accumulator that may hold a record of an earlier file.                  *)

\* how many fragments such a document is made of, at most
MaxSkippedFragments == 3

\* the fragments: a bare URL, an autolink, inline links with each of the four
\* prefixes, what opens and closes code, and two links that are processed
SkippedFragments ==
    {"http://a.b", "<https://a.b>", "[e](http://a.b)", "[s](https://a.b)",
     "[m](mailto:a@b)", "[h](#top)", Backtick, "\n" \o Backtick \o Backtick \o Backtick \o "\n",
     "[Coroutines](05-coroutines.md)", "[x](nowhere.md)", "\n"}

InitSkipped ==
    /\ pc = "start"
    /\ content \in DocumentsUpTo(SkippedFragments, MaxSkippedFragments)
    /\ source_file = "best-practices/README.md"
    /\ links = <<>>
    /\ result = ""
    /\ unmapped_links \in {<<>>, <<OldRecord>>}
    /\ call = <<>>
    /\ ret = <<>>
    /\ NoSync
    /\ cursor = 0
    /\ NoRemote

NextSkipped == ConvertLinks

SpecSkipped == InitSkipped /\ [][NextSkipped]_vars

\* the accumulator as it was before the call
AccumulatorBefore ==
    IF unmapped_links # <<>> /\ unmapped_links[1] = OldRecord THEN <<OldRecord>> ELSE <<>>

\* the href starts with http://, https://, mailto: or #
HasSkippedPrefix(href) ==
    \/ StartsWith(href, "http://")
    \/ StartsWith(href, "https://")
    \/ StartsWith(href, "mailto:")
    \/ StartsWith(href, "#")

\* links[k] is an autolink, a bare URL or an inline link with such a prefix
LeftAlone(k) ==
    \/ links[k].kind \in {"autolink", "bare"}
    \/ links[k].kind = "inline" /\ HasSkippedPrefix(links[k].href)

\* offset i of content lies in a fenced code block or in an inline code span
InCode(i) ==
    \/ \E r \in 1..Len(find_code_fence_ranges(content)) :
           /\ find_code_fence_ranges(content)[r][1] <= i
           /\ i < find_code_fence_ranges(content)[r][2]
    \/ \E r \in 1..Len(find_inline_code_ranges(content)) :
           /\ find_inline_code_ranges(content)[r][1] <= i
           /\ i < find_inline_code_ranges(content)[r][2]

\* how far offset i of content has moved in result: by the growth of every
\* occurrence that ends at or before it
ShiftAt(i) ==
    LET before == {k \in 1..Len(links) : links[k].end <= i}
    IN  IF before = {} THEN 0
        ELSE GrowthBefore(1 + CHOOSE k \in before : \A j \in before : j <= k)

\* C25: convert_links neither changes nor records (a) an autolink or a bare
\* URL, (b) an inline link whose href starts with http://, https://, mailto:
\* or #, (c) an inline link that starts inside a fenced code block or an
\* inline code span; of a document that holds only such links the output is
\* the input and the accumulator is what it was.
C25_SkippedLinksLeftAlone ==
    pc = "converted" =>
        /\ \A k \in 1..Len(links) :
               LeftAlone(k) =>
                   /\ Rendered(k) = Slice(content, links[k].start, links[k].end)
                   /\ \A r \in 1..Len(unmapped_links) :
                          unmapped_links[r][2] # links[k].href
        /\ \A n \in 1..Len(find_inline_links(content)) :
               InCode(find_inline_links(content)[n].start) =>
                   /\ Slice(result,
                            find_inline_links(content)[n].start
                                + ShiftAt(find_inline_links(content)[n].start),
                            find_inline_links(content)[n].end
                                + ShiftAt(find_inline_links(content)[n].start))
                          = find_inline_links(content)[n].segment
                   /\ \A k \in 1..Len(links) :
                          links[k].start # find_inline_links(content)[n].start
        /\ Len(unmapped_links) - Len(AccumulatorBefore)
               = Cardinality({k \in 1..Len(links) :
                                 ~LeftAlone(k) /\ IsInternal(k) /\ ~IsMapped(k)})
        /\ (\A k \in 1..Len(links) : LeftAlone(k)) =>
               /\ result = content
               /\ unmapped_links = AccumulatorBefore

\* C25 happens: after a link that was rewritten stands a link without a page
\* inside code, as it was, and the accumulator holds the record of the earlier
\* file and no other.
C25_Witness ==
    /\ pc = "converted"
    /\ \E j \in 1..Len(links) : \E n \in 1..Len(find_inline_links(content)) :
           /\ IsMapped(j)
           /\ links[j].end <= find_inline_links(content)[n].start
           /\ InCode(find_inline_links(content)[n].start)
           /\ find_inline_links(content)[n].href = "nowhere.md"
           /\ ShiftAt(find_inline_links(content)[n].start) # 0
    /\ unmapped_links = <<OldRecord>>

\* the (source path, wiki name) pairs of main in the order in which it goes
\* over them, and the path convert_links is given for each; README.md last
RunOrder ==
    [k \in 1..Len(WIKI_STRUCTURE) |-> DocsPath(WIKI_STRUCTURE[k][1])]
        \o [k \in 1..Len(root_mapping) |-> root_mapping[k][1]]
        \o <<"README.md">>

\* the records of the files from RunOrder[k] on that the run reads
RECURSIVE RecordsFrom(_)
RecordsFrom(k) ==
    IF k > Len(RunOrder) THEN <<>>
    ELSE (IF files[RunOrder[k]] = "ok"
          THEN convert_links(content, relative_to_docs(RunOrder[k]), <<>>).unmapped_links
          ELSE <<>>)
         \o RecordsFrom(k + 1)

\* a is the start of b
IsPrefix(a, b) == Len(a) <= Len(b) /\ SubSeq(b, 1, Len(a)) = a

\* C26: a run of main begins by emptying the accumulator; after that every
\* step leaves the records it holds where they are and at most appends to
\* them; when the unmapped links are reported it holds the records of the
\* files read in this run and no other, in the order in which they were
\* processed, each with the reason "path escapes documentation root" or
\* "no mapping found".
C26_AccumulatorClearedThenAppendOnly ==
    [][/\ pc = "start" => unmapped_links' = <<>>
       /\ pc # "start" => IsPrefix(unmapped_links, unmapped_links')
       /\ pc = "sidebar" =>
              /\ unmapped_links = RecordsFrom(1)
              /\ \A r \in 1..Len(unmapped_links) :
                     unmapped_links[r][3] \in {"path escapes documentation root",
                                               "no mapping found"}]_vars

\* C26 happens: the run is over; a file in the middle could not be read; the
\* accumulator holds records of both reasons, the first of a mapped file and
\* the last of README.md, none of the unread file and none of an earlier run.
C26_Witness ==
    /\ pc = "done"
    /\ files["docs/best-practices/05-coroutines.md"] = "unreadable"
    /\ Len(unmapped_links) > 2
    /\ unmapped_links[1] =
           <<"best-practices/README.md", "../../s.md", "path escapes documentation root">>
    /\ unmapped_links[Len(unmapped_links)] =
           <<"README.md", "05-coroutines.md", "no mapping found">>
    /\ \A r \in 1..Len(unmapped_links) :
           /\ unmapped_links[r][1] # "best-practices/05-coroutines.md"
           /\ unmapped_links[r] # OldRecord


(***************************************************************************)
(* LinkChecker._check_remote: the remote check of a URL and its cache.     *)
(* requests is the log of the HTTP requests issued, each with the outcome  *)
(* the server gave it: a status code, or the text of a RequestException.   *)
(***************************************************************************)
Urls == {"https://a.b", "http://c.d/x"}

\* what a request can meet: a response with a status code, or an exception
Statuses == {200, 301, 404, 405, 429, 500}

Exceptions == {"timed out", "connection refused"}

Outcomes ==
    [status : Statuses, exc : {""}] \cup [status : {0}, exc : Exceptions]

RateLimited == <<TRUE, "Rate limited (HTTP 429); skipping validation">>

\* lines 98-101: the result for the final status of a check
StatusResult(status) ==
    IF 200 <= status /\ status < 400
    THEN <<TRUE, "">>
    ELSE <<FALSE, "HTTP status " \o ToString(status)>>

RequestFailed(outcome) == <<FALSE, "Request failed: " \o outcome.exc>>

\* whether the check goes on to the fallback GET after this HEAD
NeedsGet(head) ==
    /\ head.exc = ""
    /\ head.status # 429
    /\ (head.status >= 400 \/ head.status = 405)

\* the requests an uncached check issues, given what HEAD and GET meet
RequestsIssued(url, head, get) ==
    IF NeedsGet(head)
    THEN <<[method |-> "HEAD", url |-> url, outcome |-> head],
           [method |-> "GET", url |-> url, outcome |-> get]>>
    ELSE <<[method |-> "HEAD", url |-> url, outcome |-> head]>>

\* the result of an uncached check, given what HEAD and GET meet
check_remote(head, get) ==
    IF head.exc # "" THEN RequestFailed(head)
    ELSE IF head.status = 429 THEN RateLimited
    ELSE IF NeedsGet(head)
         THEN IF get.exc # "" THEN RequestFailed(get)
              ELSE IF get.status = 429 THEN RateLimited
              ELSE StatusResult(get.status)
         ELSE StatusResult(head.status)

InitRemote ==
    /\ pc = "start"
    /\ content = ""
    /\ source_file = ""
    /\ links = <<>>
    /\ result = ""
    /\ unmapped_links = <<>>
    /\ call = <<>>
    /\ ret = <<>>
    /\ NoSync
    /\ cursor = 0
    /\ remote_cache = [url \in Urls |-> None]
    /\ requests = <<>>

\* a check that never looks into remote_cache
CheckRemote_uncached ==
    /\ pc \in {"start", "checked"}
    /\ Len(requests) < 6
    /\ \E url \in Urls, head \in Outcomes, get \in Outcomes :
           /\ call' = [url |-> url]
           /\ ret' = check_remote(head, get)
           /\ remote_cache' = [remote_cache EXCEPT ![url] = check_remote(head, get)]
           /\ requests' = requests \o RequestsIssued(url, head, get)
    /\ pc' = "checked"
    /\ UNCHANGED <<content, source_file, links, result, unmapped_links, cursor>>
    /\ UNCHANGED sync_vars

\* one call of _check_remote(url)
CheckRemote ==
    /\ pc \in {"start", "checked"}
    /\ \E url \in Urls, head \in Outcomes, get \in Outcomes :
           /\ call' = [url |-> url]
           /\ IF remote_cache[url] # None
              THEN /\ ret' = remote_cache[url]
                   /\ UNCHANGED remote_vars
              ELSE /\ ret' = check_remote(head, get)
                   /\ remote_cache' = [remote_cache EXCEPT ![url] = check_remote(head, get)]
                   /\ requests' = requests \o RequestsIssued(url, head, get)
    /\ pc' = "checked"
    /\ UNCHANGED <<content, source_file, links, result, unmapped_links, cursor>>
    /\ UNCHANGED sync_vars

NextRemote == CheckRemote

SpecRemote == InitRemote /\ [][NextRemote]_vars

RequestsFor(method, url) ==
    {r \in 1..Len(requests) : requests[r].method = method /\ requests[r].url = url}

\* C27: a URL is checked remotely at most once per LinkChecker: a call for
\* a URL that is in the cache returns the cached (ok, message), issues no
\* request and leaves the cache alone; every call that completes leaves its
\* result in the cache; no URL is ever sent more than one HEAD and one GET
\* (the GET after its HEAD); and a URL one of whose requests was answered
\* with 429 is cached as ok.
C27_RemoteCheckedOnce ==
    [][/\ pc' = "checked" =>
              /\ remote_cache[call'.url] # None =>
                     /\ ret' = remote_cache[call'.url]
                     /\ requests' = requests
                     /\ remote_cache' = remote_cache
              /\ remote_cache'[call'.url] = ret'
              /\ ret' # None
       /\ \A url \in Urls :
              /\ Cardinality(RequestsFor("HEAD", url)) <= 1
              /\ Cardinality(RequestsFor("GET", url)) <= 1
              /\ \A g \in RequestsFor("GET", url) : g - 1 \in RequestsFor("HEAD", url)
       /\ \A r \in 1..Len(requests) :
              requests[r].outcome.status = 429 =>
                  remote_cache[requests[r].url] = RateLimited]_vars

\* the last call was for a URL whose check an earlier call made: that check
\* got 429 on the fallback GET, the other URL was checked after it and failed
\* on a request exception, and the last call got the cached rate-limit result
C27_Witness ==
    /\ pc = "checked"
    /\ Len(requests) = 3
    /\ requests[1].url = call.url /\ requests[1].method = "HEAD"
    /\ requests[2].url = call.url /\ requests[2].method = "GET"
    /\ requests[2].outcome.status = 429
    /\ requests[3].url # call.url
    /\ requests[3].outcome.exc # ""
    /\ ret = RateLimited
    /\ ret[1]

(***************************************************************************)
(* fix_markdown_ordered_lists.py: renumber_markdown_lists                  *)
(***************************************************************************)
\* the class \d of the regular expressions (the ASCII digits)
IsDigit(c) == c \in {"0", "1", "2", "3", "4", "5", "6", "7", "8", "9"}

DigitValue(c) ==
    CASE c = "0" -> 0 [] c = "1" -> 1 [] c = "2" -> 2 [] c = "3" -> 3
      [] c = "4" -> 4 [] c = "5" -> 5 [] c = "6" -> 6 [] c = "7" -> 7
      [] c = "8" -> 8 [] c = "9" -> 9

\* int(number_text) for a string of digits
RECURSIVE ParseInt(_)
ParseInt(number_text) ==
    IF number_text = "" THEN 0
    ELSE 10 * ParseInt(Slice(number_text, 0, Len(number_text) - 1))
         + DigitValue(CharAt(number_text, Len(number_text) - 1))

\* text.splitlines() for a text whose line ends are \n
SplitLines(text) ==
    LET pieces == SplitOn(text, "\n", 0)
    IN  IF pieces[Len(pieces)] = "" THEN SubSeq(pieces, 1, Len(pieces) - 1)
        ELSE pieces

\* "\n".join(lines)
RECURSIVE JoinLines(_)
JoinLines(lines) ==
    IF Len(lines) = 0 THEN ""
    ELSE IF Len(lines) = 1 THEN lines[1]
    ELSE lines[1] \o "\n" \o JoinLines(Tail(lines))

\* line.lstrip()
LStrip(line) == Slice(line, SkipSpace(line, 0), Len(line))

\* offset of the first character of line[i:] that is no digit
RECURSIVE DigitRunEnd(_, _)
DigitRunEnd(line, i) ==
    IF i < Len(line) /\ IsDigit(CharAt(line, i)) THEN DigitRunEnd(line, i + 1)
    ELSE i

\* LIST_ITEM_PATTERN.match(line): ^(\s*)(\d+)([\.).])(.*)$, the four groups
\* or None
LIST_ITEM_PATTERN(line) ==
    LET s == SkipSpace(line, 0)
        d == DigitRunEnd(line, s)
    IN  IF d > s /\ d < Len(line) /\ CharAt(line, d) \in {".", ")"}
        THEN <<Slice(line, 0, s), Slice(line, s, d), CharAt(line, d),
               Slice(line, d + 1, Len(line))>>
        ELSE None

\* FENCE_PATTERN.match(stripped): ^\s*(```|~~~)
FENCE_PATTERN(stripped) ==
    LET s == SkipSpace(stripped, 0)
    IN  \/ StartsWithAt(stripped, Backtick \o Backtick \o Backtick, s)
        \/ StartsWithAt(stripped, "~~~", s)

\* the counters after the loop over list(expected_by_indent) has popped the
\* depths greater than indent: here none is popped
PopDeeper_none(expected_by_indent, indent) == expected_by_indent

\* the counters after the loop over list(expected_by_indent) has popped the
\* depths greater than indent
PopDeeper(expected_by_indent, indent) ==
    [depth \in {x \in DOMAIN expected_by_indent : x <= indent} |->
        expected_by_indent[depth]]

\* expected_by_indent.get(indent, 1)
ExpectedAt(expected_by_indent, indent) ==
    IF indent \in DOMAIN expected_by_indent THEN expected_by_indent[indent]
    ELSE 1

\* expected_by_indent[indent] = value
SetExpected(expected_by_indent, indent, value) ==
    [depth \in DOMAIN expected_by_indent \cup {indent} |->
        IF depth = indent THEN value ELSE expected_by_indent[depth]]

\* the for loop of renumber_markdown_lists from line idx on (lines are
\* numbered from 1 here); fence_delimiter is "" where the code has None
RECURSIVE renumber_loop(_, _, _, _, _, _)
renumber_loop(lines, idx, expected_by_indent, in_fence, fence_delimiter, changed) ==
    IF idx > Len(lines) THEN <<lines, changed>>
    ELSE
    LET line == lines[idx]
        stripped == LStrip(line)
        leading_spaces == Len(line) - Len(stripped)
        match == LIST_ITEM_PATTERN(line)
    IN  IF FENCE_PATTERN(stripped)
        THEN LET fence_token == Slice(stripped, 0, 3)
             IN  IF ~in_fence
                 THEN renumber_loop(lines, idx + 1, <<>>, TRUE, fence_token, changed)
                 ELSE IF fence_token = fence_delimiter
                 THEN renumber_loop(lines, idx + 1, <<>>, FALSE, "", changed)
                 ELSE renumber_loop(lines, idx + 1, <<>>, in_fence, fence_delimiter, changed)
        ELSE IF in_fence
        THEN renumber_loop(lines, idx + 1, expected_by_indent, in_fence, fence_delimiter, changed)
        ELSE IF match # None
        THEN LET indent == Len(match[1])
                 kept == PopDeeper(expected_by_indent, indent)
                 expected == ExpectedAt(kept, indent)
                 rewrite == ParseInt(match[2]) # expected
             IN  renumber_loop(
                     IF rewrite
                     THEN [lines EXCEPT ![idx] =
                              match[1] \o ToString(expected) \o match[3] \o match[4]]
                     ELSE lines,
                     idx + 1, SetExpected(kept, indent, expected + 1),
                     in_fence, fence_delimiter, changed \/ rewrite)
        ELSE IF stripped = "" \/ leading_spaces > 0
        THEN renumber_loop(lines, idx + 1, expected_by_indent, in_fence, fence_delimiter, changed)
        ELSE renumber_loop(lines, idx + 1, <<>>, in_fence, fence_delimiter, changed)

\* renumber_markdown_lists(text): the pair (new text, changed)
renumber_markdown_lists(text) ==
    LET done == renumber_loop(SplitLines(text), 1, <<>>, FALSE, "", FALSE)
    IN  <<JoinLines(done[1]) \o (IF EndsWith(text, "\n") THEN "\n" ELSE ""),
          done[2]>>

MaxListLines == 3

\* lines of a Markdown file: list items at two indentations with the
\* delimiters . and ), fences of either kind, a paragraph, a continuation
\* line, an empty line, and an item without line end
ListLines ==
    {"1. a\n", "3. b\n", "02. c\n", "  1. x\n", "  4) y\n",
     Backtick \o Backtick \o Backtick \o "\n", "~~~\n",
     "text\n", "  more\n", "\n", "10. z"}

InitLists ==
    /\ pc = "start"
    /\ content \in DocumentsUpTo(ListLines, MaxListLines)
    /\ source_file = ""
    /\ links = <<>>
    /\ result = ""
    /\ unmapped_links = <<>>
    /\ call = <<>>
    /\ ret = <<>>
    /\ NoSync
    /\ cursor = 0
    /\ NoRemote

\* one call renumber_markdown_lists(content)
RenumberMarkdownLists ==
    /\ pc = "start"
    /\ call' = [text |-> content]
    /\ ret' = renumber_markdown_lists(content)
    /\ pc' = "renumbered"
    /\ UNCHANGED <<content, source_file, links, result, unmapped_links, cursor>>
    /\ UNCHANGED sync_vars
    /\ UNCHANGED remote_vars

NextLists == RenumberMarkdownLists

SpecLists == InitLists /\ [][NextLists]_vars

\* the lines of the input and of the output of the call
InLines == SplitLines(content)

OutLines == SplitLines(ret[1])

IsFenceLine(k) == FENCE_PATTERN(LStrip(InLines[k]))

\* the fence that is open when line k is reached: its token, or ""
RECURSIVE OpenFenceBefore(_)
OpenFenceBefore(k) ==
    IF k = 1 THEN ""
    ELSE LET before == OpenFenceBefore(k - 1)
             token == Slice(LStrip(InLines[k - 1]), 0, 3)
         IN  IF ~IsFenceLine(k - 1) THEN before
             ELSE IF before = "" THEN token
             ELSE IF token = before THEN ""
             ELSE before

\* line k is neither a fence line nor inside a fenced block
Outside(k) == ~IsFenceLine(k) /\ OpenFenceBefore(k) = ""

\* line k is an ordered-list item outside a fenced block
IsItem(k) == Outside(k) /\ LIST_ITEM_PATTERN(InLines[k]) # None

IndentOf(k) == Len(LIST_ITEM_PATTERN(InLines[k])[1])

\* line j resets the counter of the indentation level indent: a fence line,
\* an item of a lesser indentation, or a line of text that starts in column 1
ResetsLevel(j, indent) ==
    \/ IsFenceLine(j)
    \/ IsItem(j) /\ IndentOf(j) < indent
    \/ /\ Outside(j)
       /\ ~IsItem(j)
       /\ InLines[j] # ""
       /\ ~IsSpace(CharAt(InLines[j], 0))

\* 1 + the number of items at the indentation of item k between the last
\* reset of that level and line k
NumberDue(k) ==
    LET resets == {j \in 1..(k - 1) : ResetsLevel(j, IndentOf(k))}
        since == IF resets = {} THEN 0 ELSE Last(resets)
    IN  1 + Cardinality({j \in (since + 1)..(k - 1) :
                             IsItem(j) /\ IndentOf(j) = IndentOf(k)})

\* C28: renumber_markdown_lists keeps the lines and the final line end of
\* the text; every ordered-list item outside a fenced block comes out with
\* its indentation, delimiter and text and with the number 1 + the count of
\* the items at its indentation since that level was last reset; every
\* other line comes out unchanged; and changed is true exactly when some
\* line of the output differs from the input line.
C28_SequentialPerIndentOutsideFences ==
    pc = "renumbered" =>
        /\ Len(OutLines) = Len(InLines)
        /\ EndsWith(ret[1], "\n") <=> EndsWith(content, "\n")
        /\ \A k \in 1..Len(InLines) :
               IF IsItem(k)
               THEN LET was == LIST_ITEM_PATTERN(InLines[k])
                        now == LIST_ITEM_PATTERN(OutLines[k])
                    IN  /\ now # None
                        /\ now[1] = was[1] /\ now[3] = was[3] /\ now[4] = was[4]
                        /\ ParseInt(now[2]) = NumberDue(k)
                        /\ ParseInt(was[2]) = NumberDue(k) => OutLines[k] = InLines[k]
               ELSE OutLines[k] = InLines[k]
        /\ ret[2] <=> \E k \in 1..Len(InLines) : OutLines[k] # InLines[k]

\* an item inside a fenced block keeps its number 3 although no item comes
\* before it there, and an item outside the block was rewritten to carry
\* the number 1
C28_Witness ==
    /\ pc = "renumbered"
    /\ ret[2]
    /\ \E k \in 1..Len(InLines) :
           /\ OpenFenceBefore(k) # ""
           /\ LIST_ITEM_PATTERN(InLines[k]) # None
           /\ OutLines[k] = InLines[k]
           /\ ParseInt(LIST_ITEM_PATTERN(InLines[k])[2]) = 3
    /\ \E k \in 1..Len(InLines) :
           /\ IsItem(k)
           /\ NumberDue(k) = 1
           /\ OutLines[k] # InLines[k]

(***************************************************************************)
(* transform_readme_for_pages.py: transform_links                          *)
(***************************************************************************)
\* text.find(sub): the least offset at which sub occurs in text, or -1
FindSubstring(text, sub) ==
    First({j \in 0..(Len(text) - Len(sub)) : StartsWithAt(text, sub, j)})

\* text.replace(old, new, 1) for a non-empty old
ReplaceFirst(text, old, new) ==
    LET at == FindSubstring(text, old)
    IN  IF at = -1 THEN text
        ELSE Slice(text, 0, at) \o new \o Slice(text, at + Len(old), Len(text))

\* docs_prefix_pattern.match(href), ^(\./)?docs/(.+)$ on an href (which holds
\* no line end): the pair (group 1 or "", group 2), or None
docs_prefix_pattern(href) ==
    IF StartsWith(href, "./docs/") /\ Len(href) > 7
    THEN <<"./", Slice(href, 7, Len(href))>>
    ELSE IF StartsWith(href, "docs/") /\ Len(href) > 5
    THEN <<"", Slice(href, 5, Len(href))>>
    ELSE None

\* the loop of transform_links over reversed(links), from links[k] down
RECURSIVE transform_loop(_, _, _)
transform_loop(found, k, res) ==
    IF k = 0 THEN res
    ELSE LET link == found[k]
             match == docs_prefix_pattern(link.href)
         IN  IF link.kind # "inline" THEN transform_loop(found, k - 1, res)
             ELSE IF match = None THEN transform_loop(found, k - 1, res)
             ELSE transform_loop(found, k - 1,
                      Slice(res, 0, link.start)
                      \o ReplaceFirst(link.segment, link.href, match[1] \o match[2])
                      \o Slice(res, link.end, Len(res)))

\* transform_links(content)
transform_links(text) ==
    LET found == extract_links(text)
    IN  transform_loop(found, Len(found), text)

MaxTransformFragments == 3

\* pieces of a README: links into docs/ with and without ./, with a title,
\* with a blank before the destination and with the destination in the link
\* text, a link elsewhere, a bare URL, docs/ alone, a code mark
TransformFragments ==
    {"[x](docs/a.md)", "[y](./docs/b.md \"T\")", "[docs/a.md](docs/a.md)",
     "[z]( docs/c.md)", "[o](other.md)", "http://a.b/docs/a", "[e](docs/)",
     Backtick, "\n", " "}

InitTransform ==
    /\ pc = "start"
    /\ content \in DocumentsUpTo(TransformFragments, MaxTransformFragments)
    /\ source_file = ""
    /\ links = <<>>
    /\ result = ""
    /\ unmapped_links = <<>>
    /\ call = <<>>
    /\ ret = <<>>
    /\ NoSync
    /\ cursor = 0
    /\ NoRemote

\* one call transform_links(content); links is what extract_links found
TransformLinks ==
    /\ pc = "start"
    /\ links' = extract_links(content)
    /\ result' = transform_links(content)
    /\ pc' = "transformed"
    /\ UNCHANGED <<content, source_file, unmapped_links, call, ret, cursor>>
    /\ UNCHANGED sync_vars
    /\ UNCHANGED remote_vars

NextTransform == TransformLinks

SpecTransform == InitTransform /\ [][NextTransform]_vars

\* the offset in content at which the href of the inline link links[k]
\* stands: after the ( and the blanks (and the < of a destination in angle
\* brackets) that follow it
HrefAt(k) ==
    LET open == links[k].start + Len(links[k].text) + 2 + Len(links[k].separator) + 1
        at == SkipSpace(content, open)
    IN  IF CharAt(content, at) = "<" /\ ~StartsWithAt(content, links[k].href, at)
        THEN SkipSpace(content, at + 1)
        ELSE at

\* links[k] is an inline link whose href starts with docs/ or ./docs/
IntoDocs(k) ==
    /\ links[k].kind = "inline"
    /\ StartsWith(links[k].href, "docs/") \/ StartsWith(links[k].href, "./docs/")

\* the href of links[k] with the docs/ prefix removed, ./ kept
WithoutDocs(k) ==
    IF StartsWith(links[k].href, "./docs/")
    THEN "./" \o Slice(links[k].href, 7, Len(links[k].href))
    ELSE Slice(links[k].href, 5, Len(links[k].href))

\* content from the end of links[k - 1] on, with the href of every link into
\* docs/ from links[k] on replaced where it stands and nothing else touched
RECURSIVE DestinationsRewrittenFrom(_)
DestinationsRewrittenFrom(k) ==
    LET from == IF k = 1 THEN 0 ELSE links[k - 1].end
    IN  IF k > Len(links) THEN Slice(content, from, Len(content))
        ELSE IF IntoDocs(k)
        THEN Slice(content, from, HrefAt(k)) \o WithoutDocs(k)
             \o Slice(content, HrefAt(k) + Len(links[k].href), links[k].end)
             \o DestinationsRewrittenFrom(k + 1)
        ELSE Slice(content, from, links[k].end) \o DestinationsRewrittenFrom(k + 1)

\* C29: transform_links changes only link destinations: in its output the
\* href of every inline link whose href starts with docs/ or ./docs/ stands
\* without the docs/ prefix (./ kept), and every other character of the
\* document, link texts, separators and titles included, is as it was.
C29_OnlyDestinationsChange ==
    pc = "transformed" => result = DestinationsRewrittenFrom(1)

(***************************************************************************)
(* convert_links applied to its own output                                 *)
(***************************************************************************)
MaxTwiceFragments == 3

\* pieces of documents: links to pages, a link without page, an external
\* link, a link in a table row, a parenthesised path as it may follow a
\* link, brackets, blanks
TwiceFragments ==
    {"[Coroutines](05-coroutines.md)", "[P](06-physics.md)", "(06-physics.md)",
     "(nowhere.md)", "[x](nowhere.md)", "[y](http://a.b)", "| ", "[", "]",
     " ", "\n"}

InitTwice ==
    /\ pc = "start"
    /\ content \in DocumentsUpTo(TwiceFragments, MaxTwiceFragments)
    /\ source_file = "best-practices/README.md"
    /\ links = <<>>
    /\ result = ""
    /\ unmapped_links = <<>>
    /\ call = <<>>
    /\ ret = <<>>
    /\ NoSync
    /\ cursor = 0
    /\ NoRemote

\* ret = convert_links(result, source_file): the rewriter run on its output
ConvertLinksAgain ==
    /\ pc = "converted"
    /\ \E done \in {convert_links(result, source_file, unmapped_links)} :
           /\ call' = [content |-> result, source_file |-> source_file]
           /\ ret' = done.result
           /\ unmapped_links' = done.unmapped_links
    /\ pc' = "reconverted"
    /\ UNCHANGED <<content, source_file, links, result, cursor>>
    /\ UNCHANGED sync_vars
    /\ UNCHANGED remote_vars

NextTwice == ConvertLinks \/ ConvertLinksAgain

SpecTwice == InitTwice /\ [][NextTwice]_vars

\* C30: rewriting is idempotent on text: the rewriter run on its own output
\* returns that output, convert_links(convert_links(d, f), f) =
\* convert_links(d, f).
C30_RewritingIsIdempotent ==
    pc = "reconverted" => ret = result
====
